---- MODULE Spec2Model ----
(***************************************************************************)
(* Model of the MCP process registry (class ServerProcess and the public   *)
(* API built on it): one supervisor object, the child processes it spawns, *)
(* the JSON-RPC requests it has in flight, the handshake barriers and the  *)
(* callers of the public API.                                              *)
(*                                                                         *)
(* Scheduling follows the Node.js event loop: every action below is one    *)
(* macrotask (a timer callback, an I/O event, a call entering from the     *)
(* host) followed by the complete drain of the promise continuations it    *)
(* made runnable (RunMicrotasks).  Nothing interleaves inside an action.   *)
(***************************************************************************)
EXTENDS Integers, Sequences, FiniteSets, TLC

\* ---- bounds of the model ----
MaxProcs == 3        \* processes one supervisor may spawn in a run
MaxId == 4           \* requests one supervisor may send in a run
MaxBars == 2         \* handshake barriers started in a run
NumCallers == 2      \* concurrent callers of the public API
MaxFaults == 1       \* disruptions in a run: crash, timeout, error answer, junk line,
                     \* idle period, closeAll
MaxPipe == 2         \* symbols a child's stdout pipe may hold undelivered

\* ---- program constants ----
ProbeAttempts == 5   \* for (let i = 0; i < 5; i++)
InitialDelay == 120  \* let delay = 120
DelayCap == 1000     \* Math.min(1000, ...)

Procs == 1..MaxProcs
Callers == 1..NumCallers
Ops == {"ensureReady", "listTools", "callTool"}
ErrKinds == {"mnf", "notinit", "other"}

VARIABLES
  procStatus,    \* OS view of each spawned process: none / alive / dying / exited,
                 \* or failed (it could not be spawned)
  stdin,         \* what has been written to each process's stdin, in order
  stdout,        \* symbols each process has emitted that 'data' has not delivered yet
  answered,      \* request ids each process has already answered
  faultsLeft,    \* disruptions the run may still see
  child,         \* this.child (0 = null)
  buffer,        \* this.buffer
  nextId,        \* this.nextId
  pending,       \* this.pending: set of [id, k], k the promise/timer of request number k
  timers,        \* request numbers whose setTimeout is armed
  idleTimer,     \* this.idleTimer is set
  idleElapsed,   \* Date.now() - this.lastUsedAt > this.idleTtlMs
  initialized,   \* this.initialized
  initPromise,   \* this.initPromise (0 = null, else the barrier number)
  req,           \* every request ever created by _rpc, by creation order
  bars,          \* every handshake barrier (the async body of _ensureReadyBarrier)
  callers,       \* the callers of the public API and where each one is suspended
  detached,      \* closeAll() has removed this supervisor from the registry map
  idleStopped    \* processes that the idle check has stopped

vars == <<procStatus, stdin, stdout, answered, faultsLeft, child, buffer, nextId,
          pending, timers, idleTimer, idleElapsed, initialized, initPromise,
          req, bars, callers, detached, idleStopped>>

\* ---- the MCP server process (stdio transport + dispatcher) ----
VARIABLES
  script,        \* what the client writes to the server's stdin in this run
  pos,           \* bytes of it that 'data' events have delivered so far
  nChunks,       \* 'data' events so far (counted up to ManyChunks)
  phase,         \* stdin is open / has ended / the process has exited
  framing,       \* let framing
  ndjsonBuffer,  \* let ndjsonBuffer (characters)
  lspBuffer,     \* let lspBuffer (bytes)
  calls,         \* every dispatch(payload) so far and how far its handler got
  out            \* the chunks written to process.stdout, in order

svars == <<script, pos, nChunks, phase, framing, ndjsonBuffer, lspBuffer, calls, out>>

\* ---- the registry: the name-keyed map of supervisors ----
VARIABLES
  servers,       \* const servers = new Map(): name -> number of the ServerProcess
  insts,         \* every ServerProcess constructed so far: [name, child]
  last           \* what the last public call did at getOrCreateServer

rvars == <<servers, insts, last>>

\* ---- the manifest loader ----
VARIABLES
  doc,           \* the parsed manifest.json handed to loadManifest
  loaded         \* what loadManifest did with it: "no" / "failed" / "ok"

mvars == <<doc, loaded>>

\* ---- what is fixed for a run of the supervisor ----
VARIABLES
  conf           \* idleTtlOk: Number.isFinite(idleTtlMs) && idleTtlMs > 0;
                 \* reqCap: the requests the supervisor may send in this run;
                 \* retriesFree: "not initialized" answers are no disruption

\* ---- the chat client's session hook (useChatSessions) ----
VARIABLES
  revision,      \* which of the two definitions of the hook in the file runs
  sessions,      \* const [sessions, setSessions] = useState(...)
  nextUuid,      \* uuid(): the ids handed out so far
  clock          \* Date.now()

hvars == <<revision, sessions, nextUuid, clock>>

outsideSupervisor == <<svars, rvars, mvars, conf, hvars>>
outsideServer == <<vars, rvars, mvars, conf, hvars>>
outsideRegistry == <<vars, svars, mvars, conf, hvars>>
outsideManifest == <<vars, svars, rvars, conf, hvars>>
outsideHook == <<vars, svars, rvars, mvars, conf>>
allvars == <<vars, svars, rvars, mvars, conf, hvars>>

\* ---- stdout symbols: one JSON text is one symbol, \n and \r are symbols ----
NL == [t |-> "nl", id |-> 0, err |-> "none"]
CR == [t |-> "cr", id |-> 0, err |-> "none"]
Garbage == [t |-> "garbage", id |-> 0, err |-> "none"]
Notif == [t |-> "notif", id |-> 0, err |-> "none"]
Scalar == [t |-> "scalar", id |-> 0, err |-> "none"]
NullId == 0 - 1
Resp(id, err) == [t |-> "resp", id |-> id, err |-> err]

\* The mutable world an operation runs in; mq is the microtask queue, ovf
\* records that the operation would exceed a bound of the model.
W == [procStatus |-> procStatus, stdin |-> stdin, child |-> child,
      buffer |-> buffer, nextId |-> nextId, pending |-> pending,
      timers |-> timers, idleTimer |-> idleTimer, idleElapsed |-> idleElapsed,
      initialized |-> initialized, initPromise |-> initPromise, req |-> req,
      bars |-> bars, callers |-> callers, mq |-> <<>>, ovf |-> FALSE,
      idleTtlOk |-> conf.idleTtlOk, reqCap |-> conf.reqCap]

NumSpawned(w) == Cardinality({p \in Procs : w.procStatus[p] # "none"})

_clearIdle(w) == [w EXCEPT !.idleTimer = FALSE]

_armIdle(w) ==
  IF ~w.idleTtlOk THEN w
  ELSE [_clearIdle(w) EXCEPT !.idleTimer = TRUE]

\* this.lastUsedAt = Date.now(): no call has entered since lastUsedAt
_touch(w) ==
  [w EXCEPT !.idleElapsed = FALSE,
            !.callers = [c \in DOMAIN @ |-> [@[c] EXCEPT !.late = FALSE]]]

\* start() that numbers the requests of every process from 1
start_resetsIds(w) ==
  IF w.child # 0 THEN w
  ELSE LET p == NumSpawned(w) + 1 IN
       IF p > MaxProcs THEN [w EXCEPT !.ovf = TRUE]
       ELSE _armIdle(_touch([w EXCEPT !.child = p, !.procStatus[p] = "alive",
                                      !.nextId = 1]))

start(w) ==
  IF w.child # 0 THEN w
  ELSE LET p == NumSpawned(w) + 1 IN
       IF p > MaxProcs THEN [w EXCEPT !.ovf = TRUE]
       ELSE _armIdle(_touch([w EXCEPT !.child = p, !.procStatus[p] = "alive"]))

stop(w) ==
  IF w.child = 0 THEN w
  ELSE [_clearIdle(w) EXCEPT
          !.procStatus[w.child] = IF @ = "alive" THEN "dying" ELSE @,
          !.child = 0,
          !.initialized = FALSE,
          !.initPromise = 0]

\* pending.set(id, {resolve, reject, timer})
MapSet(m, id, k) == {e \in m : e.id # id} \cup {[id |-> id, k |-> k]}

\* resolve/reject of request number k is invoked. The first invocation settles
\* the promise and makes its awaiter runnable; a promise that is settled keeps
\* its state, so a later invocation changes nothing but the count.
Settle(w, k, st, err) ==
  IF w.req[k].st # "pending"
  THEN [w EXCEPT !.req[k].settles = @ + 1]
  ELSE [w EXCEPT !.req[k].st = st, !.req[k].err = err, !.req[k].settles = @ + 1,
                 !.mq = Append(@, [t |-> "req", n |-> k])]

_send(w, payload) == [w EXCEPT !.stdin[w.child] = Append(@, payload)]

notify(w, method) ==
  LET w1 == start(w) IN
  IF w1.ovf THEN w1 ELSE _send(w1, [id |-> 0, method |-> method, k |-> 0])

\* bad: _send throws (JSON.stringify of params that cannot be serialised, or
\* a child without stdin); the promise executor turns the exception into a
\* rejection, after pending.set and setTimeout have already run.
_rpc(w, method, owner, bad) ==
  LET w1 == _touch(start(w))
      id == w1.nextId
      k == Len(w1.req) + 1
      r == [id |-> id, method |-> method, proc |-> w1.child, owner |-> owner,
            st |-> "pending", err |-> "none", settles |-> 0, thrown |-> bad]
      w2 == [w1 EXCEPT !.nextId = id + 1,
                       !.req = Append(@, r),
                       !.pending = MapSet(@, id, k),
                       !.timers = @ \cup {k}]
  IN IF w1.ovf \/ k > w1.reqCap THEN [w1 EXCEPT !.ovf = TRUE]
     ELSE IF bad
          THEN Settle(w2, k, "rejected", "thrown")
          ELSE _send(w2, [id |-> id, method |-> method, k |-> k])

\* _handleRpcMessage that empties the pending map once it has settled a request
_handleRpcMessage_clearsMap(w, msg) ==
  IF msg.t # "resp" THEN w
  ELSE LET es == {e \in w.pending : e.id = msg.id} IN
       IF es = {} THEN w
       ELSE LET e == CHOOSE x \in es : TRUE
                w1 == [w EXCEPT !.timers = @ \ {e.k}, !.pending = {}]
            IN IF msg.err # "none"
               THEN Settle(w1, e.k, "rejected", msg.err)
               ELSE Settle(w1, e.k, "resolved", "none")

\* _handleRpcMessage that hands a response with an unknown id to the oldest
\* outstanding request
_handleRpcMessage_oldest(w, msg) ==
  IF msg.t # "resp" THEN w
  ELSE LET hit == {e \in w.pending : e.id = msg.id}
           es == IF hit = {} THEN w.pending ELSE hit
       IN IF es = {} THEN w
          ELSE LET e == CHOOSE x \in es : \A y \in es : x.k <= y.k
                   w1 == [w EXCEPT !.timers = @ \ {e.k}, !.pending = @ \ {e}]
               IN IF msg.err # "none"
                  THEN Settle(w1, e.k, "rejected", msg.err)
                  ELSE Settle(w1, e.k, "resolved", "none")

_handleRpcMessage(w, msg) ==
  IF msg.t # "resp" THEN w
  ELSE LET es == {e \in w.pending : e.id = msg.id} IN
       IF es = {} THEN w
       ELSE LET e == CHOOSE x \in es : TRUE
                w1 == [w EXCEPT !.timers = @ \ {e.k}, !.pending = @ \ {e}]
            IN IF msg.err # "none"
               THEN Settle(w1, e.k, "rejected", msg.err)
               ELSE Settle(w1, e.k, "resolved", "none")

\* String.prototype.trimEnd on a line of symbols
RECURSIVE trimEnd(_)
trimEnd(line) ==
  IF line # <<>> /\ line[Len(line)].t = "cr"
  THEN trimEnd(SubSeq(line, 1, Len(line) - 1))
  ELSE line

\* JSON.parse(line) succeeds exactly on one JSON text
Parses(line) == Len(line) = 1 /\ line[1].t \in {"resp", "notif", "scalar"}

IndexOfNL(buf) ==
  IF \E i \in 1..Len(buf) : buf[i].t = "nl"
  THEN CHOOSE i \in 1..Len(buf) : buf[i].t = "nl" /\ \A j \in 1..(i - 1) : buf[j].t # "nl"
  ELSE 0

RECURSIVE DrainLines(_)
DrainLines(w) ==
  LET nl == IndexOfNL(w.buffer) IN
  IF nl = 0 THEN w
  ELSE LET line == trimEnd(SubSeq(w.buffer, 1, nl - 1))
           w1 == [w EXCEPT !.buffer = SubSeq(@, nl + 1, Len(@))]
       IN IF line = <<>> THEN DrainLines(w1)
          ELSE IF ~Parses(line) THEN DrainLines(w1)
          ELSE DrainLines(_handleRpcMessage(w1, line[1]))

_onStdout(w, chunk) == DrainLines([w EXCEPT !.buffer = @ \o chunk])

\* for (const [, p] of this.pending) { clearTimeout(p.timer); p.reject(...) }
RECURSIVE RejectAll(_, _)
RejectAll(w, es) ==
  IF es = {} THEN w
  ELSE LET e == CHOOSE x \in es : \A y \in es : x.k <= y.k IN
       RejectAll(Settle([w EXCEPT !.timers = @ \ {e.k}], e.k, "rejected", "exited"),
                 es \ {e})

\* exit handler that leaves this.buffer as it is
onExit_keepsBuffer(w) ==
  [_clearIdle(RejectAll(w, w.pending)) EXCEPT
     !.pending = {},
     !.child = 0,
     !.initialized = FALSE,
     !.initPromise = 0]

onExit(w) ==
  [_clearIdle(RejectAll(w, w.pending)) EXCEPT
     !.pending = {},
     !.child = 0,
     !.buffer = <<>>,
     !.initialized = FALSE,
     !.initPromise = 0]

\* timer callback that rejects without this.pending.delete(id)
onTimeout_keepsEntry(w, k) ==
  Settle([w EXCEPT !.timers = @ \ {k}], k, "rejected", "timeout")

onTimeout(w, k) ==
  Settle([w EXCEPT !.pending = {e \in @ : e.id # w.req[k].id},
                   !.timers = @ \ {k}],
         k, "rejected", "timeout")

idleTick(w) ==
  IF w.child = 0 THEN _clearIdle(w)
  ELSE IF w.idleElapsed THEN stop(w)
  ELSE w

NextDelay_uncapped(d) == (d * 16 + 5) \div 10

\* Math.min(1000, Math.round(delay * 1.6))
NextDelay(d) ==
  LET x == (d * 16 + 5) \div 10 IN IF x > DelayCap THEN DelayCap ELSE x

RECURSIVE Ascending(_)
Ascending(S) ==
  IF S = {} THEN <<>>
  ELSE LET m == CHOOSE x \in S : \A y \in S : x <= y IN
       <<[t |-> "bar", n |-> m]>> \o Ascending(S \ {m})

\* the async body of _ensureReadyBarrier settles; .finally arms setTimeout(.., 0)
BarFinish(w, b, ok, errk) ==
  LET waiting == {c \in Callers : w.callers[c].pc = "awaitBarrier" /\ w.callers[c].bar = b} IN
  [w EXCEPT !.bars[b].pc = IF ok THEN "resolved" ELSE "rejected",
            !.bars[b].clr = TRUE,
            !.bars[b].errk = errk,
            !.mq = @ \o Ascending(waiting)]

\* continuation of `await this._rpc('initialize', ...)`
AfterInit(w, b) ==
  LET k == w.bars[b].rid
      r == w.req[k]
  IN IF r.st = "resolved" \/ r.err = "mnf"
     THEN LET w1 == notify(w, "notifications/initialized") IN
          [w1 EXCEPT !.bars[b].pc = "sleep"]
     ELSE BarFinish(w, b, FALSE, k)

\* continuation of `await sleep(delay)`
ProbeSend(w, b) ==
  LET w1 == _rpc(w, "tools/list", [t |-> "b", n |-> b], FALSE) IN
  [w1 EXCEPT !.bars[b].pc = "awaitProbe", !.bars[b].rid = Len(w1.req)]

\* continuation of `await this._rpc('tools/list', ...)` inside the probe loop
AfterProbe(w, b) ==
  LET r == w.req[w.bars[b].rid] IN
  IF r.st = "resolved"
  THEN BarFinish([w EXCEPT !.initialized = TRUE], b, TRUE, 0)
  ELSE IF r.err = "notinit"
       THEN LET w1 == [w EXCEPT !.bars[b].delay = NextDelay(@), !.bars[b].i = @ + 1] IN
            IF w1.bars[b].i < ProbeAttempts
            THEN [w1 EXCEPT !.bars[b].pc = "sleep"]
            ELSE BarFinish([w1 EXCEPT !.initialized = TRUE], b, TRUE, 0)
       ELSE BarFinish([w EXCEPT !.initialized = TRUE], b, TRUE, 0)

\* late: the call entered after lastUsedAt was last set, and no later than
\* idleTtlMs after it
IdleCaller == [pc |-> "idle", op |-> "none", rid |-> 0, bar |-> 0, bad |-> FALSE,
               res |-> "none", errk |-> 0, late |-> FALSE]

\* a public call returns to its caller
Finish(w, c, res, errk) ==
  [w EXCEPT !.callers[c] = [IdleCaller EXCEPT !.res = res, !.errk = errk]]

\* ServerProcess.ensureReady after the barrier: the soft tools/list probe
AfterBarrier(w, c) ==
  LET w1 == _rpc(w, "tools/list", [t |-> "c", n |-> c], FALSE) IN
  [w1 EXCEPT !.callers[c].pc = "awaitSoft", !.callers[c].rid = Len(w1.req)]

\* ensureReady / listTools / callTool after `await s.ensureReady()`
AfterSoft(w, c) ==
  LET op == w.callers[c].op IN
  IF op = "ensureReady" THEN Finish(w, c, "ok", 0)
  ELSE LET w1 == _rpc(w, IF op = "listTools" THEN "tools/list" ELSE "tools/call",
                      [t |-> "c", n |-> c], w.callers[c].bad)
       IN [w1 EXCEPT !.callers[c].pc = "awaitCall", !.callers[c].rid = Len(w1.req)]

CallDone(w, c) ==
  LET k == w.callers[c].rid IN
  IF w.req[k].st = "resolved"
  THEN Finish(w, c, "ok", 0)
  ELSE Finish(w, c, "err", k)

NewBarrier(w, c) ==
  LET w1 == start(w)
      b == Len(w1.bars) + 1
      w2 == _rpc(w1, "initialize", [t |-> "b", n |-> b], FALSE)
      k == Len(w2.req)
  IN IF b > MaxBars \/ w2.ovf THEN [w EXCEPT !.ovf = TRUE]
     ELSE [w2 EXCEPT !.bars = Append(@, [pc |-> "awaitInit", rid |-> k, initk |-> k,
                                          i |-> 0, delay |-> InitialDelay,
                                          clr |-> FALSE, errk |-> 0]),
                     !.initPromise = b,
                     !.callers[c].pc = "awaitBarrier",
                     !.callers[c].bar = b]

_ensureReadyBarrier(w, c) ==
  IF w.initialized THEN AfterBarrier(w, c)
  ELSE IF w.initPromise # 0
       THEN LET b == w.initPromise IN
            [w EXCEPT !.callers[c].pc = "awaitBarrier",
                      !.callers[c].bar = b,
                      !.mq = IF w.bars[b].pc \in {"resolved", "rejected"}
                             THEN Append(@, [t |-> "bar", n |-> c]) ELSE @]
       ELSE NewBarrier(w, c)

\* one promise continuation
Resume(w, item) ==
  IF item.t = "bar"
  THEN LET c == item.n IN
       IF w.callers[c].pc # "awaitBarrier" THEN w
       ELSE IF w.bars[w.callers[c].bar].pc = "resolved" THEN AfterBarrier(w, c)
       ELSE Finish(w, c, "err", w.bars[w.callers[c].bar].errk)
  ELSE LET k == item.n
           o == w.req[k].owner
       IN IF o.t = "b"
          THEN IF w.bars[o.n].rid # k THEN w
               ELSE IF w.bars[o.n].pc = "awaitInit" THEN AfterInit(w, o.n)
               ELSE IF w.bars[o.n].pc = "awaitProbe" THEN AfterProbe(w, o.n)
               ELSE w
          ELSE IF w.callers[o.n].rid # k THEN w
               ELSE IF w.callers[o.n].pc = "awaitSoft" THEN AfterSoft(w, o.n)
               ELSE IF w.callers[o.n].pc = "awaitCall" THEN CallDone(w, o.n)
               ELSE w

RECURSIVE RunMicrotasks(_)
RunMicrotasks(w) ==
  IF w.ovf \/ w.mq = <<>> THEN w
  ELSE RunMicrotasks(Resume([w EXCEPT !.mq = Tail(@)], Head(w.mq)))

\* the state after a macrotask that ran in world w
Commit(w) ==
  /\ ~w.ovf
  /\ procStatus' = w.procStatus
  /\ stdin' = w.stdin
  /\ child' = w.child
  /\ buffer' = w.buffer
  /\ nextId' = w.nextId
  /\ pending' = w.pending
  /\ timers' = w.timers
  /\ idleTimer' = w.idleTimer
  /\ idleElapsed' = w.idleElapsed
  /\ initialized' = w.initialized
  /\ initPromise' = w.initPromise
  /\ req' = w.req
  /\ bars' = w.bars
  /\ callers' = w.callers

\* the state of a supervisor that has just been constructed
Constructed ==
  /\ procStatus = [p \in Procs |-> "none"]
  /\ stdin = [p \in Procs |-> <<>>]
  /\ stdout = [p \in Procs |-> <<>>]
  /\ answered = [p \in Procs |-> {}]
  /\ child = 0
  /\ buffer = <<>>
  /\ nextId = 1
  /\ pending = {}
  /\ timers = {}
  /\ idleTimer = FALSE
  /\ idleElapsed = FALSE
  /\ initialized = FALSE
  /\ initPromise = 0
  /\ req = <<>>
  /\ bars = <<>>
  /\ callers = [c \in Callers |-> IdleCaller]
  /\ detached = FALSE
  /\ idleStopped = {}

Init ==
  /\ Constructed
  /\ faultsLeft = MaxFaults

\* a disruption happens (fault = TRUE) only while the run's budget lasts
Spend(fault) ==
  /\ fault => faultsLeft > 0
  /\ faultsLeft' = IF fault THEN faultsLeft - 1 ELSE faultsLeft

\* ---- the host ----
\* ensureReady(name) / listTools(name) / callTool(name, tool, args) enters
Call(c, op, bad) ==
  /\ ~detached
  /\ callers[c].pc = "idle"
  /\ bad => op = "callTool"
  /\ Spend(FALSE)
  /\ LET w0 == [W EXCEPT !.callers[c] = [IdleCaller EXCEPT !.op = op, !.bad = bad,
                                                        !.late = ~idleElapsed]]
     IN Commit(RunMicrotasks(_ensureReadyBarrier(w0, c)))
  /\ UNCHANGED <<stdout, answered, detached, idleStopped>>
  /\ UNCHANGED outsideSupervisor

closeAll ==
  /\ ~detached
  /\ detached' = TRUE
  /\ Spend(TRUE)
  /\ Commit(stop(W))
  /\ UNCHANGED <<stdout, answered, idleStopped>>
  /\ UNCHANGED outsideSupervisor

\* ---- timers ----
Timeout(k) ==
  /\ k \in timers
  /\ Spend(TRUE)
  /\ Commit(RunMicrotasks(onTimeout(W, k)))
  /\ UNCHANGED <<stdout, answered, detached, idleStopped>>
  /\ UNCHANGED outsideSupervisor

SleepFires(b) ==
  /\ b \in 1..Len(bars)
  /\ bars[b].pc = "sleep"
  /\ Commit(RunMicrotasks(ProbeSend(W, b)))
  /\ UNCHANGED <<stdout, answered, faultsLeft, detached, idleStopped>>
  /\ UNCHANGED outsideSupervisor

\* setTimeout(() => { this.initPromise = null; }, 0)
ClearInitPromise(b) ==
  /\ b \in 1..Len(bars)
  /\ bars[b].clr
  /\ Commit([W EXCEPT !.initPromise = 0, !.bars[b].clr = FALSE])
  /\ UNCHANGED <<stdout, answered, faultsLeft, detached, idleStopped>>
  /\ UNCHANGED outsideSupervisor

IdleCheck ==
  /\ idleTimer
  /\ idleStopped' = IF child # 0 /\ idleElapsed THEN idleStopped \cup {child} ELSE idleStopped
  /\ Commit(idleTick(W))
  /\ UNCHANGED <<stdout, answered, faultsLeft, detached>>
  /\ UNCHANGED outsideSupervisor

\* more than idleTtlMs go by without a _touch
TimePasses ==
  /\ conf.idleTtlOk
  /\ child # 0
  /\ ~idleElapsed
  /\ idleElapsed' = TRUE
  /\ Spend(TRUE)
  /\ UNCHANGED <<procStatus, stdin, stdout, answered, child, buffer, nextId,
                 pending, timers, idleTimer, initialized, initPromise, req, bars,
                 callers, detached, idleStopped>>
  /\ UNCHANGED outsideSupervisor

\* ---- the child processes ----
\* The errors a server can answer with, by what the client can tell apart:
\* -32601 / "method not found" is looked for in the initialize catch only,
\* "initializ" in an error message in the probe and soft-probe catches only.
Answers(method) ==
  IF method = "initialize" THEN {"none", "mnf", "other"}
  ELSE IF method = "tools/list" THEN {"none", "notinit", "other"}
  ELSE {"none", "other"}

ChildRespond(p, e, err) ==
  /\ procStatus[p] = "alive"
  /\ e \in 1..Len(stdin[p])
  /\ stdin[p][e].k # 0
  /\ stdin[p][e].id \notin answered[p]
  /\ err \in Answers(stdin[p][e].method)
  /\ Len(stdout[p]) + 2 <= MaxPipe
  /\ Spend(err # "none" /\ ~(err = "notinit" /\ conf.retriesFree))
  /\ stdout' = [stdout EXCEPT ![p] = @ \o <<Resp(stdin[p][e].id, err), NL>>]
  /\ answered' = [answered EXCEPT ![p] = @ \cup {stdin[p][e].id}]
  /\ UNCHANGED <<procStatus, stdin, child, buffer, nextId, pending, timers,
                 idleTimer, idleElapsed, initialized, initPromise, req, bars, callers,
                 detached, idleStopped>>
  /\ UNCHANGED outsideSupervisor

\* Lines a server may write that answer no outstanding request: a response
\* with a null id, with an id never sent, with an id it has answered before;
\* a notification; a JSON scalar; text that is not JSON; an unfinished line.
JunkLines(p) ==
  {<<Resp(i, "none"), NL>> : i \in {NullId, 0} \cup answered[p]}
    \cup {<<Notif, NL>>, <<Scalar, NL>>, <<Garbage, NL>>, <<Garbage>>, <<CR, NL>>}

ChildJunk(p, line) ==
  /\ procStatus[p] = "alive"
  /\ line \in JunkLines(p)
  /\ Len(stdout[p]) + Len(line) <= MaxPipe
  /\ Spend(TRUE)
  /\ stdout' = [stdout EXCEPT ![p] = @ \o line]
  /\ UNCHANGED <<procStatus, stdin, answered, child, buffer, nextId, pending, timers,
                 idleTimer, idleElapsed, initialized, initPromise, req, bars, callers,
                 detached, idleStopped>>
  /\ UNCHANGED outsideSupervisor

\* the process terminates on its own (crash, or failure right after spawn)
ChildDies(p) ==
  /\ procStatus[p] = "alive"
  /\ Spend(TRUE)
  /\ procStatus' = [procStatus EXCEPT ![p] = "dying"]
  /\ UNCHANGED <<stdin, stdout, answered, child, buffer, nextId, pending,
                 timers, idleTimer, idleElapsed, initialized, initPromise, req, bars,
                 callers, detached, idleStopped>>
  /\ UNCHANGED outsideSupervisor

\* The command of process p could not be run (ENOENT, EACCES): Node emits
\* 'error' on the ChildProcess and no 'exit'. start() listens to 'exit' only,
\* so no handler of the supervisor runs; the host either dies of the unhandled
\* 'error' event (the run ends here) or, with a process-level handler, goes on.
\* What is written to the stdin of such a process is lost.
SpawnFails(p) ==
  /\ procStatus[p] = "alive"
  /\ stdout[p] = <<>> /\ answered[p] = {}
  /\ Spend(TRUE)
  /\ procStatus' = [procStatus EXCEPT ![p] = "failed"]
  /\ UNCHANGED <<stdin, stdout, answered, child, buffer, nextId, pending,
                 timers, idleTimer, idleElapsed, initialized, initPromise, req, bars,
                 callers, detached, idleStopped>>
  /\ UNCHANGED outsideSupervisor

\* this.child.on('exit', ...) of process p runs
ExitEvent(p) ==
  /\ procStatus[p] = "dying"
  /\ Commit(RunMicrotasks(onExit([W EXCEPT !.procStatus[p] = "exited"])))
  /\ UNCHANGED <<stdout, answered, faultsLeft, detached, idleStopped>>
  /\ UNCHANGED outsideSupervisor

\* this.child.stdout.on('data', ...) of process p runs with the next n symbols
StdoutData(p, n) ==
  /\ n \in 1..Len(stdout[p])
  /\ stdout' = [stdout EXCEPT ![p] = SubSeq(@, n + 1, Len(@))]
  /\ Commit(RunMicrotasks(_onStdout(W, SubSeq(stdout[p], 1, n))))
  /\ UNCHANGED <<answered, faultsLeft, detached, idleStopped>>
  /\ UNCHANGED outsideSupervisor

Next ==
  \/ \E c \in Callers, op \in Ops, bad \in BOOLEAN : Call(c, op, bad)
  \/ \E k \in 1..MaxId : Timeout(k)
  \/ \E b \in 1..MaxBars : SleepFires(b)
  \/ \E b \in 1..MaxBars : ClearInitPromise(b)
  \/ IdleCheck
  \/ TimePasses
  \/ \E p \in Procs, e \in 1..(MaxId + MaxBars), err \in {"none"} \cup ErrKinds :
        ChildRespond(p, e, err)
  \/ \E p \in Procs : \E line \in JunkLines(p) : ChildJunk(p, line)
  \/ \E p \in Procs : ChildDies(p)
  \/ \E p \in Procs : SpawnFails(p)
  \/ \E p \in Procs : ExitEvent(p)
  \/ \E p \in Procs, n \in 1..MaxPipe : StdoutData(p, n)
  \/ closeAll

\* no server process takes part in a run of the registry
NoServer ==
  /\ script = <<>> /\ pos = 0 /\ nChunks = 0 /\ phase = "exited"
  /\ framing = "unknown" /\ ndjsonBuffer = <<>> /\ lspBuffer = <<>>
  /\ calls = <<>> /\ out = <<>>

\* no public call goes through the registry map
NoRegistry == servers = <<>> /\ insts = <<>> /\ last = "none"

\* the chat client's hook is not mounted
NoChat == revision = 0 /\ sessions = <<>> /\ nextUuid = 0 /\ clock = 0

\* no manifest is loaded
NoManifest == doc = <<>> /\ loaded = <<>>

\* MCP_IDLE_TTL_MS is a positive number, or it is not
Confs == [idleTtlOk : BOOLEAN, reqCap : {MaxId}, retriesFree : {FALSE}]

\* the supervisor alone: its initial state, with no server process
InitSupervisor == Init /\ NoServer /\ NoChat /\ NoRegistry /\ NoManifest /\ conf \in Confs

Spec == InitSupervisor /\ [][Next]_allvars

\* ---- one host that calls ensureReady, and a server that may fail often ----
\* The handshake is looked at in runs where a single caller uses ensureReady
\* over and over and no idle interval is armed. The server may answer "not
\* initialized" as often as it likes; it answers the requests that are still
\* outstanding, and the host reads each answer in one piece; anything else
\* (an error of another kind, a timeout, a crash) happens HandshakeFaults
\* times or fewer.
HandshakeFaults == 2
HandshakeReqs == ProbeAttempts + 2

InitHandshake ==
  /\ Constructed
  /\ faultsLeft = HandshakeFaults
  /\ NoServer /\ NoChat /\ NoRegistry /\ NoManifest
  /\ conf = [idleTtlOk |-> FALSE, reqCap |-> HandshakeReqs, retriesFree |-> TRUE]

NextHandshake ==
  \/ Call(1, "ensureReady", FALSE)
  \/ \E k \in 1..HandshakeReqs : Timeout(k)
  \/ \E b \in 1..MaxBars : SleepFires(b)
  \/ \E b \in 1..MaxBars : ClearInitPromise(b)
  \/ \E p \in Procs, e \in 1..(HandshakeReqs + MaxBars), err \in {"none"} \cup ErrKinds :
        ChildRespond(p, e, err) /\ stdin[p][e].k \in timers
  \/ \E p \in Procs : ChildDies(p)
  \/ \E p \in Procs : ExitEvent(p)
  \/ \E p \in Procs : StdoutData(p, Len(stdout[p]))

SpecHandshake == InitHandshake /\ [][NextHandshake]_allvars

\* ---------------------------------------------------------------------------
\* Properties
\* ---------------------------------------------------------------------------

\* the JSON values a text holds on its complete lines, in order
RECURSIVE Decoded(_)
Decoded(text) ==
  LET nl == IndexOfNL(text) IN
  IF nl = 0 THEN <<>>
  ELSE LET line == trimEnd(SubSeq(text, 1, nl - 1))
           rest == SubSeq(text, nl + 1, Len(text))
       IN IF Parses(line) THEN <<line[1]>> \o Decoded(rest) ELSE Decoded(rest)

\* the step is a 'data' event of process p
IsData(p) == Len(stdout'[p]) < Len(stdout[p])

\* the messages that step hands to _handleRpcMessage
Handled(p) ==
  Decoded(buffer \o SubSeq(stdout[p], 1, Len(stdout[p]) - Len(stdout'[p])))

RespIds(msgs) == {msgs[i].id : i \in {j \in DOMAIN msgs : msgs[j].t = "resp"}}

FirstWithId(msgs, id) ==
  msgs[CHOOSE i \in DOMAIN msgs :
         /\ msgs[i].t = "resp" /\ msgs[i].id = id
         /\ \A j \in 1..(i - 1) : ~(msgs[j].t = "resp" /\ msgs[j].id = id)]

\* C1: a response carrying the id of an outstanding PendingRequest settles
\* exactly that request (resolved with the result, or rejected with the error
\* it carries), clears its timer and removes only its entry from the pending
\* map; every other request is left as it was, whatever the arrival order.
C1_ResponseSettlesExactlyItsRequest ==
  [][\A p \in Procs : IsData(p) =>
       LET msgs == Handled(p)
           ids == RespIds(msgs)
       IN /\ \A e \in pending :
               IF e.id \in ids
               THEN LET m == FirstWithId(msgs, e.id) IN
                    /\ e \notin pending'
                    /\ e.k \notin timers'
                    /\ req'[e.k].settles = req[e.k].settles + 1
                    /\ req'[e.k].st = IF m.err = "none" THEN "resolved" ELSE "rejected"
                    /\ req'[e.k].err = m.err
               ELSE /\ e \in pending'
                    /\ req'[e.k] = req[e.k]
                    /\ (e.k \in timers') = (e.k \in timers)
          /\ \A k \in DOMAIN req :
               req'[k] # req[k] => \E e \in pending : e.k = k /\ e.id \in ids]_vars

\* two requests were pipelined to one process and the later one was answered
\* first, while the earlier one is still outstanding
C1_Witness ==
  \E j \in DOMAIN req, k \in DOMAIN req :
    /\ j < k
    /\ req[j].proc = req[k].proc
    /\ req[j].st = "pending" /\ [id |-> req[j].id, k |-> j] \in pending
    /\ req[k].st = "resolved"

\* the step is the 'exit' event of process p
IsExit(p) == procStatus[p] = "dying" /\ procStatus'[p] = "exited"

\* C2: on a child's exit event every PendingRequest outstanding at that moment
\* is rejected with "process exited" (its reject is invoked, and its promise,
\* when still unsettled, ends rejected with that error) and its timer cleared;
\* the pending map, the input buffer and the child reference are cleared (what
\* the step leaves there was created after the handler ran), and an rpc made
\* while the child reference is null spawns a fresh process.
C2_ExitRejectsAllAndResets ==
  [][/\ \A p \in Procs : IsExit(p) =>
          /\ \A e \in pending :
               /\ req[e.k].st = "pending" =>
                    req'[e.k].st = "rejected" /\ req'[e.k].err = "exited"
               /\ req'[e.k].settles = req[e.k].settles + 1
               /\ e.k \notin timers'
          /\ \A e \in pending' : e.k > Len(req)
          /\ buffer' = <<>>
          /\ child' # 0 => procStatus[child'] = "none"
     /\ (child = 0 /\ Len(req') > Len(req)) =>
          /\ child' # 0
          /\ procStatus[child'] = "none" /\ procStatus'[child'] = "alive"
          /\ req'[Len(req) + 1].proc = child']_vars

\* a child exited with two requests outstanding and both were rejected
C2_Witness ==
  \E j \in DOMAIN req, k \in DOMAIN req :
    /\ j < k
    /\ req[j].err = "exited" /\ req[k].err = "exited"
    /\ procStatus[req[j].proc] = "exited" /\ req[k].proc = req[j].proc
    /\ child = 0 /\ pending = {} /\ buffer = <<>>

\* the step is the firing of request k's timeout timer: the timer goes away
\* in a step that is neither a 'data' nor an 'exit' event
IsTimeout(k) ==
  /\ k \in timers /\ k \notin timers'
  /\ \A p \in Procs : ~IsData(p) /\ ~IsExit(p)

\* C4: when a request's timer fires before its response (the promise is
\* still unsettled), its promise is rejected with a timeout error; whenever a
\* timer fires, the request's id leaves the pending map; the step
\* writes nothing to the child about that request (only requests created
\* afterwards are written); and the request is never settled again, so a late
\* response for that id is ignored.
C4_TimeoutIsLocalAndFinal ==
  [][/\ \A k \in DOMAIN req : IsTimeout(k) =>
          /\ req[k].st = "pending" =>
               req'[k].st = "rejected" /\ req'[k].err = "timeout"
          /\ req'[k].settles = req[k].settles + 1
          /\ \A e \in pending' : e.id # req[k].id
          /\ \A p \in Procs : \A i \in (Len(stdin[p]) + 1)..Len(stdin'[p]) :
               stdin'[p][i].k > Len(req)
     /\ \A k \in DOMAIN req : req[k].err = "timeout" => req'[k] = req[k]]_vars

\* a request timed out and is out of the pending map with its timer gone
C4_Witness ==
  \E k \in DOMAIN req :
    /\ req[k].st = "rejected" /\ req[k].err = "timeout"
    /\ k \notin timers
    /\ \A e \in pending : e.id # req[k].id

\* C9: request ids are allocated in strictly increasing order and never
\* reused, across stops and respawns, and no two outstanding requests (pending
\* entry or armed timer) carry the same id.
C9_IdsIncreaseAndAreUnique ==
  /\ \A j \in DOMAIN req, k \in DOMAIN req : j < k => req[j].id < req[k].id
  /\ \A k \in DOMAIN req : req[k].id < nextId
  /\ \A e \in pending, f \in pending : e.id = f.id => e = f
  /\ \A j \in timers, k \in timers : req[j].id = req[k].id => j = k
  /\ \A e \in pending : e.k \in DOMAIN req /\ req[e.k].id = e.id

\* requests were sent to two different processes of the supervisor
C9_Witness ==
  \E j \in DOMAIN req, k \in DOMAIN req :
    j < k /\ req[j].proc # req[k].proc /\ req[j].proc # 0 /\ req[k].proc # 0

\* C10: a message whose id matches no outstanding PendingRequest (never sent,
\* already settled, null), and a message without an id, leave the supervisor
\* unchanged: no promise is settled, and the pending map, the timers, the
\* child reference, the idle timer and the handshake state stay as they were.
C10_UnmatchedMessageIsIgnored ==
  [][\A p \in Procs :
       (IsData(p) /\ RespIds(Handled(p)) \cap {e.id : e \in pending} = {}) =>
         UNCHANGED <<pending, timers, req, child, idleTimer, initialized,
                     initPromise, bars, callers>>]_vars

\* the response to a request that had timed out has been delivered and consumed
C10_Witness ==
  \E k \in DOMAIN req :
    /\ req[k].err = "timeout"
    /\ req[k].id \in answered[req[k].proc]
    /\ stdout[req[k].proc] = <<>>
    /\ buffer = <<>>

\* the barriers that have completed on process p: their initialize request
\* was written to p and their body has resolved
CompletedOn(p, bs, rs) ==
  {b \in DOMAIN bs : bs[b].pc = "resolved" /\ rs[bs[b].initk].proc = p}

\* C3: the handshake is not inherited across process instances: when a
\* caller's tools/call or tools/list is written to a process spawned after an
\* earlier child exited or was stopped, an initialize request has been sent to
\* that same process and a barrier has completed on it.
C3_HandshakeRedoneOnRespawn ==
  [][\A k \in (Len(req) + 1)..Len(req') :
       (req'[k].owner.t = "c" /\ ~req'[k].thrown /\ req'[k].proc > 1) =>
         CompletedOn(req'[k].proc, bars', req') # {}]_vars

\* C5: after the idle timer has stopped a child, a public call never fails
\* because of that shutdown: no caller is handed a "process exited" rejection
\* of a request that was written to a process which is still running.
C5_IdleStopIsTransparent ==
  \A c \in Callers :
    (/\ idleStopped # {}
     /\ callers[c].res = "err"
     /\ callers[c].errk # 0
     /\ req[callers[c].errk].err = "exited")
      => procStatus[req[callers[c].errk].proc] # "alive"

Running == {b \in DOMAIN bars : bars[b].pc \notin {"resolved", "rejected"}}

\* C6: the handshake barrier is memoized while in flight: whatever the number
\* of callers, at most one barrier is running on a supervisor at any time.
C6_OneBarrierAtATime == Cardinality(Running) <= 1

Alive == {p \in Procs : procStatus[p] = "alive"}

\* C7: a supervisor owns exactly one child process: at most one process it
\* spawned is alive and not killed, and its child reference designates it.
C7_ExactlyOneChild ==
  /\ Cardinality(Alive) <= 1
  /\ \A p \in Alive : child = p

C20_NoChildAfterCloseAll ==
  detached => (child = 0 /\ Alive = {})

\* ===========================================================================
\* The MCP server process: stdio transport (attachToStdio) and dispatcher
\* (createServer).  A byte is a string; an ASCII byte stands for itself, the
\* two bytes of the non-ASCII character Enye are "C3" "B1".  A JSON text is written
\* with one character per token: "{" id method name arguments... "}".
\* ===========================================================================

\* ---- bounds ----
MaxMsgs == 2         \* messages the client writes in a run
ManyChunks == 3      \* 'data' events are counted up to this number

\* ---- program constants ----
InternalError == 0 - 32000     \* generic error code
MethodNotFound == 0 - 32601
InvalidParams == 0 - 32602
InvalidOutput == 0 - 32001

LF == "LF"
CRch == "CR"
SP == "SP"
Enye == "enye"       \* a character outside ASCII (U+00F1), two bytes in UTF-8
RepCh == "FFFD"      \* U+FFFD, what decoding puts for a malformed byte sequence
Whitespace == {LF, CRch, SP}
CRLFCRLF == <<CRch, LF, CRch, LF>>
HeaderName == <<"C", "o", "n", "t", "e", "n", "t", "-", "L", "e", "n", "g", "t", "h", ":">>
DigitChars == <<"0", "1", "2", "3", "4", "5", "6", "7", "8", "9">>

\* Buffer.from(str, 'utf8')
RECURSIVE toBytes(_)
toBytes(str) ==
  IF str = <<>> THEN <<>>
  ELSE (CASE Head(str) = Enye -> <<"C3", "B1">>
          [] Head(str) = RepCh -> <<"EF", "BF", "BD">>
          [] OTHER -> <<Head(str)>>) \o toBytes(Tail(str))

\* buf.toString('utf8'): a byte sequence that is not a complete character
\* decodes to U+FFFD
RECURSIVE toString(_)
toString(buf) ==
  IF buf = <<>> THEN <<>>
  ELSE LET n == Len(buf)
           b == buf[1]
           take == CASE b = "C3" /\ n >= 2 /\ buf[2] = "B1" -> 2
                     [] b = "EF" /\ n >= 3 /\ buf[2] = "BF" /\ buf[3] = "BD" -> 3
                     [] b = "EF" /\ n >= 2 /\ buf[2] = "BF" -> 2
                     [] OTHER -> 1
           ch == CASE b = "C3" /\ take = 2 -> Enye
                   [] b \in {"C3", "B1", "EF", "BF", "BD"} -> RepCh
                   [] OTHER -> b
       IN <<ch>> \o toString(SubSeq(buf, take + 1, n))

\* s.indexOf(pat): position of the first occurrence (from 1), 0 when absent
indexOf(s, pat) ==
  LET hits == {i \in 1..(Len(s) - Len(pat) + 1) : SubSeq(s, i, i + Len(pat) - 1) = pat}
  IN IF hits = {} THEN 0 ELSE CHOOSE i \in hits : \A j \in hits : i <= j

RECURSIVE trimStart(_)
trimStart(s) ==
  IF s # <<>> /\ Head(s) \in Whitespace THEN trimStart(Tail(s)) ELSE s

RECURSIVE trimTail(_)
trimTail(s) ==
  IF s # <<>> /\ s[Len(s)] \in Whitespace THEN trimTail(SubSeq(s, 1, Len(s) - 1)) ELSE s

\* line.trim()
trim(s) == trimTail(trimStart(s))

\* ---- JSON texts ----
IdToks == {"1", "2"}
MethodToks == {"p", "c", "x"}
NameToks == {"a", "d", "z"}
ArgChars == {"u", Enye, RepCh}

MethodOf(tok) ==
  CASE tok = "p" -> "ping" [] tok = "c" -> "tools/call" [] OTHER -> "nope"

NameOf(tok) ==
  CASE tok = "a" -> "audit_site" [] tok = "d" -> "dry_run" [] OTHER -> "missing_tool"

\* JSON.parse(text): [ok, v]; ok is FALSE when JSON.parse throws
parse(text) ==
  LET n == Len(text)
      inner == SubSeq(text, 2, n - 1)
      hasId == inner # <<>> /\ inner[1] \in IdToks
      r1 == IF hasId THEN Tail(inner) ELSE inner
      hasName == Len(r1) >= 2 /\ r1[2] \in NameToks
      args == SubSeq(r1, IF hasName THEN 3 ELSE 2, Len(r1))
      ok == /\ n >= 3 /\ text[1] = "{" /\ text[n] = "}"
            /\ r1 # <<>> /\ r1[1] \in MethodToks
            /\ \A i \in DOMAIN args : args[i] \in ArgChars
  IN IF ~ok THEN [ok |-> FALSE, v |-> <<>>]
     ELSE [ok |-> TRUE,
           v |-> [id |-> IF hasId THEN (IF inner[1] = "1" THEN 1 ELSE 2) ELSE NullId,
                  method |-> MethodOf(r1[1]),
                  name |-> IF hasName THEN NameOf(r1[2]) ELSE "",
                  args |-> args]]

\* the text of a request, as the client's JSON.stringify writes it
ReqText(m) ==
  <<"{">> \o (IF m.id = NullId THEN <<>> ELSE <<DigitChars[m.id + 1]>>)
    \o <<CASE m.method = "ping" -> "p" [] m.method = "tools/call" -> "c" [] OTHER -> "x">>
    \o (CASE m.name = "" -> <<>> [] m.name = "audit_site" -> <<"a">>
          [] m.name = "dry_run" -> <<"d">> [] OTHER -> <<"z">>)
    \o m.args \o <<"}">>

\* String(n) for n >= 0
RECURSIVE Digits(_)
Digits(n) ==
  IF n < 10 THEN <<DigitChars[n + 1]>>
  ELSE Digits(n \div 10) \o <<DigitChars[(n % 10) + 1]>>

\* parseInt(m[1], 10) of a run of digit characters
RECURSIVE parseInt(_)
parseInt(ds) ==
  IF ds = <<>> THEN 0
  ELSE parseInt(SubSeq(ds, 1, Len(ds) - 1)) * 10
         + (CHOOSE d \in 0..9 : DigitChars[d + 1] = ds[Len(ds)])

IsDigit(c) == \E d \in 1..10 : DigitChars[d] = c

\* `Content-Length: ${body.length}\r\n\r\n` + body
LspFrame(text) ==
  LET body == toBytes(text) IN
  toBytes(HeaderName \o <<SP>> \o Digits(Len(body)) \o CRLFCRLF) \o body

\* json + '\n'
NdjsonFrame(text) == toBytes(text \o <<LF>>)

\* ---- the dispatcher (createServer) ----
NoCode == [kind |-> "none", n |-> 0]
IntCode(n) == [kind |-> "int", n |-> n]
StrCode == [kind |-> "str", n |-> 0]     \* e.g. err.code = 'ECONNRESET'
NoData == [kind |-> "undefined", errors |-> <<>>]
ErrorsData(errors) == [kind |-> "errors", errors |-> errors]
ThrownData == [kind |-> "thrown", errors |-> <<>>]
NoRes == [id |-> NullId, code |-> 0, msg |-> "", data |-> NoData, result |-> "none"]

\* the tool table built from the manifest: a tool that declares both schemas
\* and a tool that declares none. loadManifest gives a tool without an input
\* schema the schema { type: 'object', additionalProperties: false }, so an
\* input validator is compiled for every tool; an output validator only for
\* a declared schema. The deadline of a call is a timer that fires at some
\* time, whatever its length.
Tools ==
  [audit_site |-> [validateInput |-> TRUE, inputSchema |-> "declared", validateOutput |-> TRUE],
   dry_run |-> [validateInput |-> TRUE, inputSchema |-> "default", validateOutput |-> FALSE]]

ToolNames == DOMAIN Tools

toJsonRpcResult(id, result) ==
  [id |-> id, code |-> 0, msg |-> "", data |-> NoData, result |-> result]

toJsonRpcError(id, code, message, data) ==
  [id |-> id, code |-> code, msg |-> message, data |-> data, result |-> "none"]

\* ajv's compiled validator of the tool's input schema: [ok, errors]. The
\* declared schema requires url; the default one admits no property.
validateInput(name, args) ==
  IF Tools[name].inputSchema = "declared"
  THEN IF \E i \in DOMAIN args : args[i] = "u"
       THEN [ok |-> TRUE, errors |-> <<>>]
       ELSE [ok |-> FALSE, errors |-> <<"required:url">>]
  ELSE IF args = <<>>
       THEN [ok |-> TRUE, errors |-> <<>>]
       ELSE [ok |-> FALSE, errors |-> <<"additionalProperties">>]

\* ajv's compiled validator of the output schema, on what exec returned
validateOutput(res) ==
  IF res.valid THEN [ok |-> TRUE, errors |-> <<>>]
  ELSE [ok |-> FALSE, errors |-> <<"required:summary">>]

\* what exec may do once it runs: return a value (that fits the output schema
\* or not) or throw (with an integer code, a string code, no code)
ExecOutcomes ==
  {[t |-> "return", valid |-> TRUE, code |-> NoCode],
   [t |-> "return", valid |-> FALSE, code |-> NoCode],
   [t |-> "throw", valid |-> FALSE, code |-> NoCode],
   [t |-> "throw", valid |-> FALSE, code |-> IntCode(4001)],
   [t |-> "throw", valid |-> FALSE, code |-> StrCode]}

Thrown(code, msg, data) == [t |-> "throw", code |-> code, msg |-> msg, data |-> data]

\* callTool that runs exec without validating the arguments
callTool_noInputCheck(name, args) ==
  IF name \notin ToolNames
  THEN Thrown(NoCode, "Tool not found", NoData)
  ELSE [t |-> "exec", code |-> NoCode, msg |-> "", data |-> NoData]

\* callTool up to `await t.exec(...)`: throws, or arms the timer and runs exec
callTool(name, args) ==
  IF name \notin ToolNames
  THEN Thrown(NoCode, "Tool not found", NoData)
  ELSE IF Tools[name].validateInput /\ ~validateInput(name, args).ok
       THEN Thrown(IntCode(InvalidParams), "Invalid input",
                   ErrorsData(validateInput(name, args).errors))
       ELSE [t |-> "exec", code |-> NoCode, msg |-> "", data |-> NoData]

\* the rest of callTool that returns whatever exec returned
afterExec_noOutputCheck(name, o) ==
  IF o.t = "throw" THEN Thrown(o.code, "exec failed", ThrownData)
  ELSE [t |-> "return", code |-> NoCode, msg |-> "", data |-> NoData]

\* the rest of callTool, once exec has settled with outcome o
afterExec(name, o) ==
  IF o.t = "throw" THEN Thrown(o.code, "exec failed", ThrownData)
  ELSE IF Tools[name].validateOutput /\ ~validateOutput(o).ok
       THEN Thrown(IntCode(InvalidOutput), "invalid output", ErrorsData(validateOutput(o).errors))
       ELSE [t |-> "return", code |-> NoCode, msg |-> "", data |-> NoData]

\* handleRequest's reply to a failed call that always uses the generic code
afterCallTool_genericCode(id, name, r) ==
  IF r.t = "return" THEN toJsonRpcResult(id, name)
  ELSE toJsonRpcError(id, InternalError, r.msg, r.data)

\* handleRequest, case 'tools/call', after `await callTool(name, args)`
afterCallTool(id, name, r) ==
  IF r.t = "return" THEN toJsonRpcResult(id, name)
  ELSE toJsonRpcError(id, IF r.code.kind = "int" THEN r.code.n ELSE InternalError,
                      r.msg, r.data)

\* handleRequest up to its first suspension: [pc, res]; pc is "tick1" or
\* "tick2" when the reply is ready after that many promise ticks, "exec" when
\* the handler is suspended on exec
handleRequest(payload) ==
  LET id == payload.id IN
  CASE payload.method = "ping" ->
         [pc |-> "tick1", res |-> toJsonRpcResult(id, "pong")]
    [] payload.method = "tools/call" ->
         IF payload.name = ""
         THEN [pc |-> "tick1",
               res |-> toJsonRpcError(id, InvalidParams, "Missing tool name", NoData)]
         ELSE LET r == callTool(payload.name, payload.args) IN
              IF r.t = "exec" THEN [pc |-> "exec", res |-> NoRes]
              ELSE [pc |-> "tick2", res |-> afterCallTool(id, payload.name, r)]
    [] OTHER ->
         [pc |-> "tick1", res |-> toJsonRpcError(id, MethodNotFound, "Method not found", NoData)]

\* ---- the transport (attachToStdio) ----
NoOutcome == [t |-> "none", valid |-> FALSE, code |-> NoCode]

\* the mutable state of the server process a handler runs on
SW ==
  [framing |-> framing, ndjsonBuffer |-> ndjsonBuffer, lspBuffer |-> lspBuffer,
   calls |-> calls, out |-> out]

\* JSON.stringify(obj) of a response
stringify(obj) ==
  <<"{">> \o (IF obj.id = NullId THEN <<"N">> ELSE Digits(obj.id))
    \o (IF obj.code = 0 THEN <<"R">>
        ELSE IF obj.code < 0 THEN <<"E", "-">> \o Digits(0 - obj.code)
        ELSE <<"E">> \o Digits(obj.code))
    \o <<"}">>

\* writeMessage that answers under the id of the oldest call
writeMessage_oldestId(s, i, obj) ==
  LET o1 == [obj EXCEPT !.id = s.calls[1].payload.id]
      json == stringify(o1)
      bytes == IF s.framing = "lsp" THEN LspFrame(json) ELSE NdjsonFrame(json)
  IN [s EXCEPT !.out = Append(@, bytes),
               !.calls[i].pc = "done",
               !.calls[i].res = o1,
               !.calls[i].writes = @ + 1,
               !.calls[i].at = Len(s.out) + 1]

\* writeMessage(obj), called by the dispatch of call number i
writeMessage(s, i, obj) ==
  LET json == stringify(obj)
      bytes == IF s.framing = "lsp" THEN LspFrame(json) ELSE NdjsonFrame(json)
  IN [s EXCEPT !.out = Append(@, bytes),
               !.calls[i].pc = "done",
               !.calls[i].res = obj,
               !.calls[i].writes = @ + 1,
               !.calls[i].at = Len(s.out) + 1]

\* dispatch(payload) up to `await server.handleRequest(payload)`
dispatch(s, payload) ==
  LET h == handleRequest(payload) IN
  [s EXCEPT !.calls = Append(@, [payload |-> payload, pc |-> h.pc, res |-> h.res,
                                 timer |-> h.pc = "exec", aborted |-> FALSE,
                                 o |-> NoOutcome, writes |-> 0, at |-> 0])]

\* handleOneLine that gives up on the buffered input when a line is malformed
handleOneLine_givesUp(s, line) ==
  LET p == parse(trim(line)) IN
  IF p.ok THEN dispatch(s, p.v) ELSE [s EXCEPT !.ndjsonBuffer = <<>>]

handleOneLine(s, line) ==
  LET p == parse(trim(line)) IN
  IF p.ok THEN dispatch(s, p.v) ELSE s

RECURSIVE tryDrainNdjson(_)
tryDrainNdjson(s) ==
  LET newlineIdx == indexOf(s.ndjsonBuffer, <<LF>>) IN
  IF newlineIdx = 0 THEN s
  ELSE LET line == SubSeq(s.ndjsonBuffer, 1, newlineIdx - 1)
           s1 == [s EXCEPT !.ndjsonBuffer = SubSeq(@, newlineIdx + 1, Len(@))]
           trimmed == trim(line)
       IN IF trimmed = <<>> THEN tryDrainNdjson(s1)
          ELSE tryDrainNdjson(handleOneLine(s1, trimmed))

\* /Content-Length:\s*(\d+)/.exec(headerPart): the run of digits matched,
\* <<>> when there is no match
contentLength(headerPart) ==
  LET n == Len(headerPart)
      \* first position after the name and the white space that follows it
      after(i) == CHOOSE j \in (i + Len(HeaderName))..(n + 1) :
                    /\ \A k \in (i + Len(HeaderName))..(j - 1) : headerPart[k] \in Whitespace
                    /\ (j = n + 1 \/ headerPart[j] \notin Whitespace)
      hits == {i \in 1..(n - Len(HeaderName) + 1) :
                 /\ SubSeq(headerPart, i, i + Len(HeaderName) - 1) = HeaderName
                 /\ after(i) <= n /\ IsDigit(headerPart[after(i)])}
  IN IF hits = {} THEN <<>>
     ELSE LET i == CHOOSE x \in hits : \A y \in hits : x <= y
              from == after(i)
              to == CHOOSE j \in from..n :
                      /\ \A k \in from..j : IsDigit(headerPart[k])
                      /\ (j = n \/ ~IsDigit(headerPart[j + 1]))
          IN SubSeq(headerPart, from, to)

\* tryDrainLsp that returns after the first frame or header block
tryDrainLsp_once(s) ==
  LET headerEnd == indexOf(s.lspBuffer, CRLFCRLF) IN
  IF headerEnd = 0 THEN s
  ELSE LET headerPart == toString(SubSeq(s.lspBuffer, 1, headerEnd - 1))
           m == contentLength(headerPart)
       IN IF m = <<>>
          THEN [s EXCEPT !.lspBuffer = SubSeq(@, headerEnd + 4, Len(@))]
          ELSE LET totalNeeded == (headerEnd - 1) + 4 + parseInt(m) IN
               IF Len(s.lspBuffer) < totalNeeded THEN s
               ELSE LET body == toString(SubSeq(s.lspBuffer, headerEnd + 4, totalNeeded))
                        s1 == [s EXCEPT !.lspBuffer = SubSeq(@, totalNeeded + 1, Len(@))]
                        p == parse(body)
                    IN IF p.ok THEN dispatch(s1, p.v) ELSE s1

RECURSIVE tryDrainLsp(_)
tryDrainLsp(s) ==
  LET headerEnd == indexOf(s.lspBuffer, CRLFCRLF) IN
  IF headerEnd = 0 THEN s
  ELSE LET headerPart == toString(SubSeq(s.lspBuffer, 1, headerEnd - 1))
           m == contentLength(headerPart)
       IN IF m = <<>>
          THEN tryDrainLsp([s EXCEPT !.lspBuffer = SubSeq(@, headerEnd + 4, Len(@))])
          ELSE LET totalNeeded == (headerEnd - 1) + 4 + parseInt(m) IN
               IF Len(s.lspBuffer) < totalNeeded THEN s
               ELSE LET body == toString(SubSeq(s.lspBuffer, headerEnd + 4, totalNeeded))
                        s1 == [s EXCEPT !.lspBuffer = SubSeq(@, totalNeeded + 1, Len(@))]
                        p == parse(body)
                    IN tryDrainLsp(IF p.ok THEN dispatch(s1, p.v) ELSE s1)

\* /^\s*Content-Length:/.test(s) || s.includes('\r\n\r\n')
detect(str) ==
  LET t == trimStart(str) IN
  IF \/ (Len(t) >= Len(HeaderName) /\ SubSeq(t, 1, Len(HeaderName)) = HeaderName)
     \/ indexOf(str, CRLFCRLF) # 0
  THEN "lsp" ELSE "ndjson"

\* onData that detects the framing on every chunk
onData_redetects(s, chunk) ==
  LET s1 == [s EXCEPT !.framing = detect(toString(chunk))] IN
  IF s1.framing = "lsp"
  THEN tryDrainLsp([s1 EXCEPT !.lspBuffer = @ \o chunk])
  ELSE tryDrainNdjson([s1 EXCEPT !.ndjsonBuffer = @ \o toString(chunk)])

onData(s, chunk) ==
  LET s1 == IF s.framing = "unknown"
            THEN [s EXCEPT !.framing = detect(toString(chunk))] ELSE s
  IN IF s1.framing = "lsp"
     THEN tryDrainLsp([s1 EXCEPT !.lspBuffer = @ \o chunk])
     ELSE tryDrainNdjson([s1 EXCEPT !.ndjsonBuffer = @ \o toString(chunk)])

\* process.stdin.on('end'), up to its first await
onEnd(s) ==
  IF s.framing = "ndjson"
  THEN LET tail == s.ndjsonBuffer
           s1 == [s EXCEPT !.ndjsonBuffer = <<>>]
       IN IF trim(tail) # <<>> THEN handleOneLine(s1, tail) ELSE s1
  ELSE IF s.framing = "lsp" THEN tryDrainLsp(s) ELSE s

\* the continuations of `await server.handleRequest(payload)` that are
\* runnable after `tick` promise ticks write their replies, oldest first
RECURSIVE Replies(_, _, _)
Replies(s, tick, i) ==
  IF i > Len(s.calls) THEN s
  ELSE IF s.calls[i].pc = tick
       THEN Replies(writeMessage(s, i, s.calls[i].res), tick, i + 1)
       ELSE Replies(s, tick, i + 1)

\* the promise continuations a handler made runnable, drained
Drain(s) == Replies(Replies(s, "tick1", 1), "tick2", 1)

CommitServer(s) ==
  /\ framing' = s.framing
  /\ ndjsonBuffer' = s.ndjsonBuffer
  /\ lspBuffer' = s.lspBuffer
  /\ calls' = s.calls
  /\ out' = s.out

\* ---- the client and the environment of the server ----
Req(id, method, name, args) == [id |-> id, method |-> method, name |-> name, args |-> args]

\* the requests a client may write as its message number i
ClientMsgs(i) ==
  IF i = 1
  THEN {Req(i, "ping", "", <<>>),
        Req(NullId, "ping", "", <<>>),
        Req(i, "nope", "", <<>>),
        Req(i, "tools/call", "", <<>>),
        Req(i, "tools/call", "missing_tool", <<>>),
        Req(i, "tools/call", "audit_site", <<"u">>),
        Req(i, "tools/call", "audit_site", <<"u", Enye>>),
        Req(i, "tools/call", "audit_site", <<>>),
        Req(i, "tools/call", "dry_run", <<>>),
        Req(i, "tools/call", "dry_run", <<"u">>)}
  ELSE {Req(i, "ping", "", <<>>),
        Req(i, "tools/call", "audit_site", <<"u">>),
        Req(i, "tools/call", "audit_site", <<Enye>>)}

\* what a client may write in place of a message: text that is not JSON, and
\* a JSON text that is cut short
Malformed == {<<"G">>, <<"{", "p">>}

\* mal: the line or body that does not parse (len = FALSE: a header block
\* that carries no Content-Length, and no body), and the number of the message
\* it is written before (at = 0: the client writes no such thing)
NoMalformed == [at |-> 0, text |-> <<>>, len |-> TRUE]

\* a client writes MaxMsgs messages or fewer, all in one framing; an NDJSON
\* client ends its lines with \n or with \r\n; cut: the bytes at the end of
\* its last line or frame that the client does not write before it closes
Scripts ==
  {[fr |-> fr, eol |-> eol, msgs |-> <<m>>, mal |-> NoMalformed, cut |-> 0] :
     fr \in {"ndjson", "lsp"}, eol \in {<<LF>>, <<CRch, LF>>}, m \in ClientMsgs(1)}
  \cup (IF MaxMsgs < 2 THEN {}
        ELSE {[fr |-> fr, eol |-> eol, msgs |-> <<m1, m2>>, mal |-> NoMalformed,
                cut |-> 0] :
                fr \in {"ndjson", "lsp"}, eol \in {<<LF>>, <<CRch, LF>>},
                m1 \in ClientMsgs(1), m2 \in ClientMsgs(2)})

\* the scripts of a client that uses Content-Length framing, pipelines its
\* messages, and may write a header block without Content-Length before,
\* between or after them
LspScripts ==
  LET base == {x \in Scripts :
                 /\ x.fr = "lsp" /\ x.eol = <<LF>>
                 /\ Len(x.msgs) = MaxMsgs
                 /\ x.msgs[1] \in {Req(1, "ping", "", <<>>),
                                   Req(1, "tools/call", "audit_site", <<"u", Enye>>)}
                 /\ \A i \in 2..Len(x.msgs) : x.msgs[i].method = "ping"}
  IN base \cup {[sc EXCEPT !.mal = [at |-> k, text |-> <<"X", ":", "1">>, len |-> FALSE]] :
                  sc \in base, k \in 1..(MaxMsgs + 1)}

MaxCut == 3          \* bytes a client may leave unwritten when it closes

\* the scripts of a client that closes the pipe after its last line without
\* the newline, or in the middle of its last line or frame
EndScripts ==
  {[sc EXCEPT !.cut = n] :
     sc \in {x \in Scripts :
               /\ Len(x.msgs) = MaxMsgs
               /\ x.fr = "lsp" => x.eol = <<LF>>
               /\ x.msgs[1] \in {Req(1, "ping", "", <<>>),
                                 Req(1, "tools/call", "audit_site", <<"u">>)}
               /\ \A i \in 2..Len(x.msgs) : x.msgs[i].method = "ping"},
     n \in 0..MaxCut}

\* the scripts of a client that writes one malformed line or body before,
\* between or after its well-formed messages
MalformedScripts ==
  {[sc EXCEPT !.mal = [at |-> k, text |-> t, len |-> TRUE]] :
     sc \in {x \in Scripts :
               /\ Len(x.msgs) = MaxMsgs
               /\ x.msgs[1] \in {Req(1, "ping", "", <<>>),
                                 Req(1, "tools/call", "audit_site", <<"u">>)}
               /\ \A i \in 2..Len(x.msgs) : x.msgs[i].method = "ping"},
     k \in 1..(MaxMsgs + 1), t \in Malformed}

\* the bytes of one line or frame
FrameOf(fr, eol, text) ==
  IF fr = "lsp" THEN LspFrame(text) ELSE toBytes(text \o eol)

\* the bytes of the messages of a script
RECURSIVE StreamOf(_, _, _)
StreamOf(fr, eol, msgs) ==
  IF msgs = <<>> THEN <<>>
  ELSE FrameOf(fr, eol, ReqText(Head(msgs))) \o StreamOf(fr, eol, Tail(msgs))

\* the bytes of a script
stream ==
  LET k == script.mal.at
      n == Len(script.msgs)
      all == IF k = 0 THEN StreamOf(script.fr, script.eol, script.msgs)
             ELSE StreamOf(script.fr, script.eol, SubSeq(script.msgs, 1, k - 1))
                    \o (IF script.mal.len
                        THEN FrameOf(script.fr, script.eol, script.mal.text)
                        ELSE toBytes(script.mal.text \o CRLFCRLF))
                    \o StreamOf(script.fr, script.eol, SubSeq(script.msgs, k, n))
  IN SubSeq(all, 1, Len(all) - script.cut)

InitServer ==
  /\ script \in {sc \in Scripts : sc.fr = "lsp" => sc.eol = <<LF>>}
  /\ pos = 0 /\ nChunks = 0 /\ phase = "open"
  /\ framing = "unknown" /\ ndjsonBuffer = <<>> /\ lspBuffer = <<>>
  /\ calls = <<>> /\ out = <<>>

\* process.stdin emits 'data' with the next n bytes
StdinData(n) ==
  /\ phase = "open"
  /\ pos + n <= Len(stream)
  /\ CommitServer(Drain(onData(SW, SubSeq(stream, pos + 1, pos + n))))
  /\ pos' = pos + n
  /\ nChunks' = IF nChunks < ManyChunks THEN nChunks + 1 ELSE nChunks
  /\ UNCHANGED <<script, phase>>
  /\ UNCHANGED outsideServer

\* the client closes the pipe: process.stdin emits 'end'
StdinEnd ==
  /\ phase = "open"
  /\ pos = Len(stream)
  /\ CommitServer(Drain(onEnd(SW)))
  /\ phase' = "ended"
  /\ UNCHANGED <<script, pos, nChunks>>
  /\ UNCHANGED outsideServer

\* an 'end' handler that exits without awaiting the dispatches in flight
Exit_withoutWaiting ==
  /\ phase = "ended"
  /\ phase' = "exited"
  /\ UNCHANGED <<script, pos, nChunks, framing, ndjsonBuffer, lspBuffer, calls, out>>
  /\ UNCHANGED outsideServer

\* every dispatch awaited by the 'end' handler has settled: process.exit(0)
Exit ==
  /\ phase = "ended"
  /\ \A i \in DOMAIN calls : calls[i].pc = "done"
  /\ phase' = "exited"
  /\ UNCHANGED <<script, pos, nChunks, framing, ndjsonBuffer, lspBuffer, calls, out>>
  /\ UNCHANGED outsideServer

\* the exec of call number i settles with outcome o; callTool, handleRequest
\* and dispatch run on to the reply
ExecSettles(i, o) ==
  /\ phase # "exited"
  /\ i \in DOMAIN calls
  /\ calls[i].pc = "exec"
  /\ LET c == calls[i]
         r == afterExec(c.payload.name, o)
         res == afterCallTool(c.payload.id, c.payload.name, r)
         s1 == [SW EXCEPT !.calls[i].o = o, !.calls[i].timer = FALSE]
     IN CommitServer(writeMessage(s1, i, res))
  /\ UNCHANGED <<script, pos, nChunks, phase>>
  /\ UNCHANGED outsideServer

\* the deadline timer of call number i fires: controller.abort(); nothing
\* listens to the signal (exec is not given it)
DeadlineFires(i) ==
  /\ phase # "exited"
  /\ i \in DOMAIN calls
  /\ calls[i].pc = "exec"
  /\ calls[i].timer
  /\ calls' = [calls EXCEPT ![i].timer = FALSE, ![i].aborted = TRUE]
  /\ UNCHANGED <<script, pos, nChunks, phase, framing, ndjsonBuffer, lspBuffer, out>>
  /\ UNCHANGED outsideServer

NextServer ==
  \/ \E n \in 1..(Len(stream) - pos) : StdinData(n)
  \/ StdinEnd
  \/ Exit
  \/ \E i \in 1..MaxMsgs, o \in ExecOutcomes : ExecSettles(i, o)
  \/ \E i \in 1..MaxMsgs : DeadlineFires(i)

\* the server process alone: the supervisor stays in its initial state
InitServerProcess ==
  Init /\ InitServer /\ NoChat /\ NoRegistry /\ NoManifest
       /\ conf = [idleTtlOk |-> TRUE, reqCap |-> MaxId, retriesFree |-> FALSE]

SpecServer == InitServerProcess /\ [][NextServer]_allvars

\* the server process fed by a client that writes a malformed line or body
InitMalformed ==
  /\ Init /\ NoRegistry /\ NoChat /\ NoManifest
  /\ conf = [idleTtlOk |-> TRUE, reqCap |-> MaxId, retriesFree |-> FALSE]
  /\ pos = 0 /\ nChunks = 0 /\ phase = "open"
  /\ framing = "unknown" /\ ndjsonBuffer = <<>> /\ lspBuffer = <<>>
  /\ calls = <<>> /\ out = <<>>
  /\ script \in {sc \in MalformedScripts :
                   /\ sc.fr = "lsp" => sc.eol = <<LF>>
                   /\ sc.mal.at <= Len(sc.msgs) + 1}

SpecMalformed == InitMalformed /\ [][NextServer]_allvars

\* the server process fed by a client that pipelines Content-Length frames
InitLsp ==
  /\ Init /\ NoRegistry /\ NoChat /\ NoManifest
  /\ conf = [idleTtlOk |-> TRUE, reqCap |-> MaxId, retriesFree |-> FALSE]
  /\ pos = 0 /\ nChunks = 0 /\ phase = "open"
  /\ framing = "unknown" /\ ndjsonBuffer = <<>> /\ lspBuffer = <<>>
  /\ calls = <<>> /\ out = <<>>
  /\ script \in LspScripts

SpecLsp == InitLsp /\ [][NextServer]_allvars

\* the server process fed by a client that closes the pipe early
InitEnd ==
  /\ Init /\ NoRegistry /\ NoChat /\ NoManifest
  /\ conf = [idleTtlOk |-> TRUE, reqCap |-> MaxId, retriesFree |-> FALSE]
  /\ pos = 0 /\ nChunks = 0 /\ phase = "open"
  /\ framing = "unknown" /\ ndjsonBuffer = <<>> /\ lspBuffer = <<>>
  /\ calls = <<>> /\ out = <<>>
  /\ script \in EndScripts

SpecEnd == InitEnd /\ [][NextServer]_allvars

\* The 'end' handler runs on to process.exit(0) once what it awaits has
\* settled, and the event loop fires the timers that are armed; nothing makes
\* a tool's exec settle.
SpecEndFair ==
  /\ InitEnd /\ [][NextServer]_allvars
  /\ \A i \in 1..MaxMsgs : WF_allvars(DeadlineFires(i))
  /\ WF_allvars(Exit)

\* The event loop fires the timers that are armed; nothing makes a tool's
\* exec settle, and nothing makes the client write or close.
SpecServerFair ==
  /\ InitServerProcess /\ [][NextServer]_allvars
  /\ \A i \in 1..MaxMsgs : WF_allvars(DeadlineFires(i))

\* ---------------------------------------------------------------------------
\* Properties of the server process
\* ---------------------------------------------------------------------------

\* the payloads handed to dispatch, in order
Payloads(cs) == [i \in DOMAIN cs |-> cs[i].payload]

\* a decoder that has seen no byte yet
Fresh ==
  [framing |-> "unknown", ndjsonBuffer |-> <<>>, lspBuffer |-> <<>>,
   calls |-> <<>>, out |-> <<>>]

AllFed == phase = "open" /\ pos = Len(stream)

\* C11: for a well-formed NDJSON byte stream, the messages decoded once every
\* chunk has been fed are the messages decoded from the whole stream fed as a
\* single chunk, however the stream was split.
C11_NdjsonChunkingIsInvisible ==
  (script.fr = "ndjson" /\ AllFed) =>
    Payloads(calls) = Payloads(onData(Fresh, stream).calls)

\* C12: a message encoded with Content-Length framing and fed to a fresh
\* decoder in two chunks, split at any byte offset, has been decoded to the
\* original message, once, when the second chunk has been fed.
C12_LspRoundTripInTwoChunks ==
  (script.fr = "lsp" /\ Len(script.msgs) = 1 /\ nChunks = 2 /\ AllFed) =>
    Payloads(calls) = script.msgs

\* the text of a chunk is LSP-like: Content-Length: at its start, after
\* optional white space, or an empty line \r\n\r\n anywhere
LooksLsp(chunk) ==
  LET str == toString(chunk)
      t == trimStart(str)
  IN \/ \E i \in 1..(Len(str) - 3) : SubSeq(str, i, i + 3) = CRLFCRLF
     \/ /\ Len(t) >= Len(HeaderName)
        /\ \A i \in 1..Len(HeaderName) : t[i] = HeaderName[i]

\* the reply that the chunk number j of stdout carries
ReplyAt(cs, j) == cs[CHOOSE i \in DOMAIN cs : cs[i].at = j].res

ToolCalls == {i \in DOMAIN calls : /\ calls[i].payload.method = "tools/call"
                                   /\ calls[i].payload.name \in ToolNames}

\* the arguments of call i fail the input schema of its tool: they lack the
\* field a declared schema requires, or hold a property where none is admitted
BadArgs(i) ==
  IF Tools[calls[i].payload.name].inputSchema = "declared"
  THEN \A k \in DOMAIN calls[i].payload.args : calls[i].payload.args[k] # "u"
  ELSE calls[i].payload.args # <<>>

\* C14: a tools/call whose arguments fail the tool's declared input schema is
\* answered with error -32602 and a non-empty data.errors, and exec is never
\* invoked for it (no timer armed, no outcome).
C14_InvalidArgumentsRejected ==
  \A i \in ToolCalls :
    (Tools[calls[i].payload.name].validateInput /\ BadArgs(i)) =>
      /\ calls[i].pc = "done" /\ calls[i].writes = 1
      /\ calls[i].res.id = calls[i].payload.id
      /\ calls[i].res.code = InvalidParams
      /\ calls[i].res.data.kind = "errors" /\ calls[i].res.data.errors # <<>>
      /\ calls[i].o = NoOutcome /\ ~calls[i].timer /\ ~calls[i].aborted

\* a call with arguments that miss the required field has been answered
C14_Witness ==
  \E i \in ToolCalls :
    /\ Tools[calls[i].payload.name].validateInput /\ BadArgs(i)
    /\ calls[i].res.code = InvalidParams /\ calls[i].at # 0

\* C15: a tools/call naming a tool that is not in the tool table is answered
\* with error -32601.
C15_UnknownToolIsMethodNotFound ==
  \A i \in DOMAIN calls :
    (/\ calls[i].payload.method = "tools/call"
     /\ calls[i].payload.name # "" /\ calls[i].payload.name \notin ToolNames
     /\ calls[i].pc = "done")
      => calls[i].res.code = MethodNotFound

\* C16: when the deadline timer of a call fires and exec has not settled, the
\* call is abandoned: its caller is answered with an error in that step.
C16_DeadlineRejectsTheCaller ==
  [][\A i \in DOMAIN calls :
       (calls[i].timer /\ ~calls'[i].timer /\ calls'[i].o = NoOutcome) =>
         /\ calls'[i].pc = "done"
         /\ calls'[i].res.code # 0
         /\ Len(out') = Len(out) + 1]_allvars

\* C18: when exec throws, the reply is an error whose code is the integer
\* code of the thrown error, -32000 when it carries none, with the thrown
\* error's message and data; nothing else of the server changes, so later
\* requests are served.
C18_ExecErrorIsWrapped ==
  [][\A i \in DOMAIN calls :
       (calls[i].pc = "exec" /\ calls'[i].o.t = "throw") =>
         /\ calls'[i].pc = "done"
         /\ calls'[i].res = toJsonRpcError(calls[i].payload.id,
                              IF calls'[i].o.code.kind = "int"
                              THEN calls'[i].o.code.n ELSE InternalError,
                              "exec failed", ThrownData)
         /\ Len(out') = Len(out) + 1
         /\ \A j \in DOMAIN calls : j # i => calls'[j] = calls[j]
         /\ UNCHANGED <<phase, framing, ndjsonBuffer, lspBuffer, pos>>]_allvars

\* an exec threw an error carrying a string code, and a request decoded
\* after that has been answered with a result
C18_Witness ==
  \E i \in DOMAIN calls, j \in DOMAIN calls :
    /\ i < j
    /\ calls[i].o.t = "throw" /\ calls[i].o.code.kind = "str"
    /\ calls[i].res.code = InternalError
    /\ calls[i].at # 0 /\ calls[j].at > calls[i].at /\ calls[j].res.code = 0

\* C19: when a tool declares an output schema and exec returns a value that
\* does not satisfy it, the reply is error -32001; a success reply is only
\* written for a value that passed the validation.
C19_InvalidOutputNeverReturned ==
  \A i \in ToolCalls :
    (Tools[calls[i].payload.name].validateOutput /\ calls[i].pc = "done") =>
      /\ (calls[i].o.t = "return" /\ ~calls[i].o.valid) =>
           /\ calls[i].res.code = InvalidOutput
           /\ calls[i].res.result = "none"
           /\ calls[i].res.data.kind = "errors"
      /\ calls[i].res.code = 0 => (calls[i].o.t = "return" /\ calls[i].o.valid)

\* an exec returned a value outside the output schema and the call has been
\* answered
C19_Witness ==
  \E i \in ToolCalls :
    /\ Tools[calls[i].payload.name].validateOutput
    /\ calls[i].o.t = "return" /\ ~calls[i].o.valid /\ calls[i].at # 0

\* C17: a correlated id is never dropped: every decoded request that carries
\* an id is eventually answered, with one reply that carries that id.
C17_EveryIdIsAnswered ==
  \A i \in 1..MaxMsgs :
    (i \in DOMAIN calls /\ calls[i].payload.id # NullId)
      ~> (/\ i \in DOMAIN calls /\ calls[i].writes = 1
          /\ calls[i].res.id = calls[i].payload.id)

\* sequence a is an initial part of sequence b
IsPrefix(a, b) == Len(a) <= Len(b) /\ a = SubSeq(b, 1, Len(a))

\* C30: a line or body that does not parse is recovered locally: whatever the
\* chunking, once the framing the client uses is in force, what has been
\* dispatched is the well-formed messages of the client, in the order they
\* were written, all of them once every byte has been fed; the malformed
\* line or body is not dispatched, every reply written answers a dispatched
\* message, and the stream stays open.
C30_MalformedIsDroppedLocally ==
  (script.mal.at # 0 /\ framing = script.fr /\ phase = "open") =>
    /\ IsPrefix(Payloads(calls), script.msgs)
    /\ pos = Len(stream) => Payloads(calls) = script.msgs
    /\ \A j \in DOMAIN out : \E i \in DOMAIN calls : calls[i].at = j

\* a malformed line or body came first and was fed in a chunk of its own or
\* split over chunks; the two messages after it have been dispatched
C30_Witness ==
  /\ script.mal.at = 1 /\ Len(script.msgs) = 2
  /\ AllFed /\ nChunks >= 3
  /\ Len(calls) = 2
  /\ \E i \in DOMAIN calls : calls[i].writes = 1

\* what the client writes, unit by unit: the bytes of each frame or header
\* block, and the message it carries (none for a block without a body)
UnitsOf(sc) ==
  LET n == Len(sc.msgs)
      ms == [i \in 1..n |-> [bytes |-> FrameOf(sc.fr, sc.eol, ReqText(sc.msgs[i])),
                             msgs |-> <<sc.msgs[i]>>]]
      bad == [bytes |-> IF sc.mal.len THEN FrameOf(sc.fr, sc.eol, sc.mal.text)
                        ELSE toBytes(sc.mal.text \o CRLFCRLF),
              msgs |-> <<>>]
  IN IF sc.mal.at = 0 THEN ms
     ELSE SubSeq(ms, 1, sc.mal.at - 1) \o <<bad>> \o SubSeq(ms, sc.mal.at, n)

\* of the first n bytes written: the messages of the units that are complete,
\* and the number of bytes that follow the last complete unit
RECURSIVE Complete(_, _)
Complete(units, n) ==
  IF units = <<>> \/ Len(Head(units).bytes) > n THEN [msgs |-> <<>>, rest |-> n]
  ELSE LET r == Complete(Tail(units), n - Len(Head(units).bytes))
       IN [r EXCEPT !.msgs = Head(units).msgs \o @]

\* C31: under Content-Length framing, whatever the chunking, the messages
\* dispatched are exactly those whose header and whole body have been
\* received, in order (none from an incomplete frame, every complete
\* pipelined frame); a header block without Content-Length is dropped; and
\* the buffer holds exactly the bytes received after the last complete frame
\* or header block.
C31_LspDispatchesCompleteFramesOnly ==
  framing = "lsp" =>
    LET c == Complete(UnitsOf(script), pos) IN
    /\ Payloads(calls) = c.msgs
    /\ lspBuffer = SubSeq(stream, pos - c.rest + 1, pos)

\* a header block without Content-Length and two frames have been received;
\* the second frame arrived in one chunk with the end of the first, and bytes
\* of the second were buffered while it was incomplete
C31_Witness ==
  /\ script.fr = "lsp" /\ ~script.mal.len /\ script.mal.at = 1
  /\ framing = "lsp" /\ pos = Len(stream) /\ nChunks = 2
  /\ Len(calls) = 2

\* process.stdin emits 'end' in this step
IsEnd == phase = "open" /\ phase' = "ended"

\* all the messages of the script but the last
ButLast(msgs) == SubSeq(msgs, 1, Len(msgs) - 1)

\* what the 'end' handler does with the input that is left over: an NDJSON
\* tail that lacks nothing but its newline is dispatched as the last
\* message; an NDJSON tail that is cut short and a dangling LSP frame are
\* dropped, and nothing is written for them
C32_TailAtEnd ==
  [][(IsEnd /\ framing = script.fr /\ script.cut > 0) =>
       IF script.fr = "ndjson" /\ script.cut <= Len(script.eol)
       THEN /\ Payloads(calls) = ButLast(script.msgs)
            /\ Payloads(calls') = script.msgs
            /\ ndjsonBuffer' = <<>>
       ELSE /\ Payloads(calls') = ButLast(script.msgs)
            /\ Payloads(calls') = Payloads(calls)
            /\ Len(out') = Len(out)]_allvars

\* C32: at end of stream a non-empty NDJSON tail without its newline is
\* processed as one final message, a dangling partial LSP frame is dropped
\* without an error, and in both cases the server then shuts down: once
\* 'end' has been handled the process exits.
C32_EndOfStream ==
  /\ C32_TailAtEnd
  /\ (phase = "ended") ~> (phase = "exited")

\* process.exit(0) is reached in this step
ProcessExits == phase = "ended" /\ phase' = "exited"

\* the reply to call number i is on stdout, once, in the detected framing
ReplyWritten(i) ==
  /\ calls[i].pc = "done" /\ calls[i].writes = 1
  /\ calls[i].res.id = calls[i].payload.id
  /\ calls[i].at \in DOMAIN out
  /\ out[calls[i].at] = IF framing = "lsp" THEN LspFrame(stringify(calls[i].res))
                        ELSE NdjsonFrame(stringify(calls[i].res))

\* C38: when stdin ends, the reply to every request decoded so far (a flushed
\* NDJSON tail and the dispatches still in flight included) is written
\* before the process exits; nothing is written after the exit; and once
\* every handler has settled the process does exit.
C38_RepliesBeforeExit ==
  /\ [][ProcessExits =>
          /\ \A i \in DOMAIN calls : ReplyWritten(i)
          /\ (script.fr = "ndjson" /\ framing = "ndjson" /\ script.cut \in 1..Len(script.eol)) =>
               Payloads(calls) = script.msgs]_allvars
  /\ [][phase = "exited" => (out' = out /\ calls' = calls)]_allvars
  /\ (phase = "ended" /\ \A i \in DOMAIN calls : calls[i].pc = "done")
       ~> (phase = "exited")

\* the process has exited after a flushed NDJSON tail was answered and a
\* tool call that was in flight at 'end' wrote its reply after the tail's
C38_Witness ==
  /\ phase = "exited" /\ framing = "ndjson" /\ script.cut = 1
  /\ Len(calls) = 2
  /\ calls[1].payload.method = "tools/call" /\ calls[1].o # NoOutcome
  /\ calls[1].at > calls[2].at /\ calls[2].at # 0

\* the exec of call number i settles in this step
ExecEnds(i) == calls[i].pc = "exec" /\ calls'[i].pc = "done"

\* C33: an exec that fails or is slow affects its own call only. When an
\* exec settles, with a result or a failure, one reply is written, under the
\* id of that call, and no other call changes. While calls are executing or
\* have failed, a request that is decoded leaves them as they are and, unless
\* it starts an exec itself, is answered at once under its own id.
C33_ExecFailureIsLocal ==
  [][/\ \A i \in DOMAIN calls :
          ExecEnds(i) =>
            /\ calls'[i].res.id = calls[i].payload.id
            /\ Len(out') = Len(out) + 1 /\ calls'[i].at = Len(out')
            /\ \A j \in DOMAIN calls' : j # i => (j \in DOMAIN calls /\ calls'[j] = calls[j])
     /\ Len(calls') > Len(calls) =>
          /\ \A i \in DOMAIN calls : calls'[i] = calls[i]
          /\ \A j \in (Len(calls) + 1)..Len(calls') :
               \/ calls'[j].pc = "exec"
               \/ /\ calls'[j].pc = "done" /\ calls'[j].writes = 1
                  /\ calls'[j].res.id = calls'[j].payload.id
                  /\ calls'[j].at \in (Len(out) + 1)..Len(out')]_allvars

\* the second request was answered while the exec of the first was running;
\* then the exec of the first failed, and the failure went to the first
C33_Witness ==
  /\ Len(calls) = 2
  /\ calls[1].pc = "done" /\ calls[1].o.t = "throw" /\ calls[1].res.code # 0
  /\ calls[1].res.id = 1
  /\ calls[2].pc = "done" /\ calls[2].res.code = 0 /\ calls[2].res.id = 2
  /\ calls[2].at < calls[1].at

\* C34: a tool whose manifest entry declares no input schema accepts any
\* arguments object: every tools/call to it, with empty arguments or not,
\* passes input validation and reaches exec (it is executing, or its exec
\* has settled).
C34_NoSchemaAcceptsAnything ==
  \A i \in DOMAIN calls :
    (/\ calls[i].payload.method = "tools/call"
     /\ calls[i].payload.name \in ToolNames
     /\ Tools[calls[i].payload.name].inputSchema = "default")
      => (calls[i].pc = "exec" \/ calls[i].o # NoOutcome)

\* ---------------------------------------------------------------------------
\* Properties of the supervisor: spawn failure, readiness, handshake order
\* ---------------------------------------------------------------------------

\* the host has been told that process p is gone ('exit' or 'error' emitted)
Reported(st) == st \in {"exited", "failed"}

\* C22: when the child cannot be spawned or dies, every call in flight on it
\* is rejected in the step that reports the failure, and a request made
\* afterwards is never written to the process that failed.
C22_SpawnFailureIsRecoverable ==
  [][/\ \A p \in Procs :
          (Reported(procStatus'[p]) /\ ~Reported(procStatus[p])) =>
            \A k \in DOMAIN req :
              (req[k].proc = p /\ req[k].st = "pending") => req'[k].st = "rejected"
     /\ \A k \in DOMAIN req' :
          k \notin DOMAIN req => ~Reported(procStatus'[req'[k].proc])]_allvars

\* C23: in every reachable state the Ready flag implies that a child process
\* exists and that a handshake barrier has completed on that very process.
C23_ReadyImpliesHandshakenChild ==
  initialized => (child # 0 /\ CompletedOn(child, bars, req) # {})

\* a response of the server has settled request k (with a result or an error)
AnsweredByServer(r) == r.st = "resolved" \/ r.err \in {"mnf", "notinit", "other"}

\* caller c's ensureReady returns in this step, with result res
Returns(c, res) ==
  /\ callers[c].op = "ensureReady"
  /\ callers[c].pc # "idle"
  /\ callers'[c].pc = "idle"
  /\ callers'[c].res = res

\* C25: ensureReady resolves true only if the server process is up and has
\* answered a tools/list request: whenever a caller's ensureReady returns
\* true, there is a child and some tools/list request written to it has been
\* settled by a response of the server.
C25_ReadyOnlyIfToolsListAnswered ==
  [][\A c \in Callers :
       Returns(c, "ok") =>
         /\ child' # 0
         /\ \E k \in DOMAIN req' :
              /\ req'[k].method = "tools/list"
              /\ req'[k].proc = child'
              /\ AnsweredByServer(req'[k])]_allvars

\* message number i on the stdin of process p is written in this step
Written(p, i) == i \in (Len(stdin[p]) + 1)..Len(stdin'[p])

\* C26: within one process lifetime the handshake messages are ordered: the
\* first request written to a process is initialize; the initialized
\* notification is written after the initialize written to that process was
\* answered with a result or with method-not-found; a tools/list probe of the
\* barrier is written after the notification; a request of a caller is
\* written after a barrier has completed on that process.
C26_HandshakeOrder ==
  [][\A p \in Procs : \A i \in DOMAIN stdin'[p] :
       Written(p, i) =>
         LET msg == stdin'[p][i]
             before == {stdin'[p][j] : j \in 1..(i - 1)}
         IN /\ i = 1 => msg.method = "initialize"
            /\ msg.method = "notifications/initialized" =>
                 \E m \in before :
                   /\ m.method = "initialize"
                   /\ req'[m.k].st = "resolved" \/ req'[m.k].err = "mnf"
            /\ (msg.k # 0 /\ req'[msg.k].owner.t = "b" /\ msg.method = "tools/list") =>
                 \E m \in before : m.method = "notifications/initialized"
            /\ (msg.k # 0 /\ req'[msg.k].owner.t = "c") =>
                 CompletedOn(p, bars', req') # {}]_allvars

\* the initialize request of barrier b is settled in this step
InitSettles(b) == bars[b].pc = "awaitInit" /\ req'[bars[b].initk].st # "pending"

\* a public call of caller c enters in this step
Enters(c) == callers[c].pc = "idle" /\ callers'[c].pc # "idle"

\* C27: an initialize that fails with -32601 / "method not found" is
\* tolerated: the barrier goes on as after a result (it writes the initialized
\* notification and waits before its first probe). Any other failure of
\* initialize (timeout, process exit, another error) rejects the barrier and
\* leaves the supervisor not Ready; once the rejected barrier's promise has
\* been cleared, a call that enters starts a new barrier.
C27_InitializeFailure ==
  [][/\ \A b \in DOMAIN bars :
          InitSettles(b) =>
            LET r == req'[bars[b].initk] IN
            IF r.st = "resolved" \/ r.err = "mnf"
            THEN /\ bars'[b].pc = "sleep"
                 /\ \E p \in Procs : \E i \in DOMAIN stdin'[p] :
                      Written(p, i) /\ stdin'[p][i].method = "notifications/initialized"
            ELSE /\ bars'[b].pc = "rejected"
                 /\ ~initialized'
     /\ \A c \in Callers :
          (Enters(c) /\ ~initialized /\ initPromise = 0) =>
            /\ Len(bars') = Len(bars) + 1
            /\ bars'[Len(bars')].pc = "awaitInit"
            /\ initPromise' = Len(bars')
            /\ callers'[c].bar = Len(bars')]_allvars

\* the tools/list probes barrier b has sent, as request numbers
ProbesOf(b, rs) ==
  {k \in DOMAIN rs : rs[k].owner = [t |-> "b", n |-> b] /\ rs[k].method = "tools/list"}

\* the probe barrier b is waiting for is settled in this step
ProbeSettles(b) == bars[b].pc = "awaitProbe" /\ req'[bars[b].rid].st # "pending"

\* the delays before the first, second, ... fifth probe, in milliseconds
Backoff == <<120, 192, 307, 491, 786>>

\* C28: the readiness probe is bounded: a barrier sends five tools/list
\* probes or fewer; every probe but its latest failed with a "not
\* initialized" error; the delay before probe number n is 120 ms grown n - 1
\* times by the factor 1.6, and no delay exceeds 1000 ms; when a probe
\* settles, the barrier completes as Ready if the probe succeeded, if it
\* failed in any other way, or if it was the fifth, and otherwise waits for
\* the next probe.
C28_ProbeIsBounded ==
  [][\A b \in DOMAIN bars' :
       /\ Cardinality(ProbesOf(b, req')) <= 5
       /\ \A k \in ProbesOf(b, req') :
            k # bars'[b].rid => (req'[k].st = "rejected" /\ req'[k].err = "notinit")
       /\ bars'[b].delay <= 1000
       /\ bars'[b].pc = "sleep" =>
            /\ bars'[b].delay = Backoff[Cardinality(ProbesOf(b, req')) + 1]
            /\ bars'[b].i = Cardinality(ProbesOf(b, req'))
       /\ (b \in DOMAIN bars /\ ProbeSettles(b)) =>
            LET r == req'[bars[b].rid] IN
            IF r.st = "resolved" \/ r.err # "notinit" \/ Cardinality(ProbesOf(b, req)) = 5
            THEN bars'[b].pc = "resolved" /\ initialized'
            ELSE bars'[b].pc = "sleep"]_allvars

\* a barrier has completed as Ready after its fifth probe failed with "not
\* initialized", having computed the capped delay
C28_Witness ==
  \E b \in DOMAIN bars :
    /\ bars[b].pc = "resolved"
    /\ Cardinality(ProbesOf(b, req)) = 5
    /\ \A k \in ProbesOf(b, req) : req[k].err = "notinit"
    /\ bars[b].delay = 1000
    /\ initialized

\* the idle check stops the child in this step
IdleStops == idleStopped' # idleStopped

\* C29: the idle check stops the child exactly when more than idleTtlMs have
\* gone by since lastUsedAt: it stops the child only then, and a check that
\* finds a child in that condition stops it. Every rpc refreshes lastUsedAt,
\* and a supervisor that has received a call within idleTtlMs is not
\* idle-stopped. The check is armed by start(), cleared by stop() and by the
\* exit of the child, and never armed when idleTtlMs is not a positive
\* finite number.
C29_IdleStopOnlyWhenUnused ==
  [][/\ IdleStops => (idleTimer /\ child # 0 /\ idleElapsed /\ child' = 0)
     /\ (idleTimer /\ child # 0 /\ idleElapsed) => ENABLED (IdleCheck /\ IdleStops)
     /\ Len(req') > Len(req) => ~idleElapsed'
     /\ IdleStops => \A c \in Callers : ~callers[c].late
     /\ (child' # 0 /\ child' # child) => (idleTimer' <=> conf.idleTtlOk)
     /\ (child # 0 /\ child' = 0) => ~idleTimer'
     /\ idleTimer' => conf.idleTtlOk]_allvars

\* process p is not the supervisor's child any more, and a newer child runs
Superseded(p) == child # 0 /\ child # p

\* C35: events of a previous child never alter state that belongs to a newer
\* child: when the exit event or stdout data of a superseded process is
\* handled, no request written to the current child is rejected, the
\* reference to the current child and its idle timer stay, its handshake
\* state is not reset, and nothing is put into its line buffer.
C35_OldChildEventsAreInert ==
  [][\A p \in Procs :
       /\ (IsExit(p) /\ Superseded(p)) =>
            /\ \A k \in DOMAIN req :
                 (req[k].proc = child /\ req[k].st = "pending") => req'[k].st = "pending"
            /\ child' = child
            /\ idleTimer' = idleTimer
            /\ initialized => initialized'
            /\ initPromise # 0 => initPromise' = initPromise
       /\ (IsData(p) /\ Superseded(p)) =>
            /\ child' = child
            /\ Len(buffer') <= Len(buffer)]_allvars

\* C36: the idle check never stops a child while a request is outstanding on
\* it: in the step in which the idle check stops the child, no request
\* written to that child is still pending.
C36_IdleStopSparesBusyChild ==
  [][IdleStops =>
       \A k \in DOMAIN req : ~(req[k].proc = child /\ req[k].st = "pending")]_allvars

\* C37: a request whose write to the child's stdin threw leaves no trace:
\* every entry of the pending map belongs to a request that was written, and
\* no timer is armed for a request that was never sent.
C37_FailedWriteLeavesNoTrace ==
  /\ \A e \in pending : ~req[e.k].thrown
  /\ \A k \in timers : ~req[k].thrown

\* ---------------------------------------------------------------------------
\* The registry: getOrCreateServer and the public API over the name-keyed map
\* ---------------------------------------------------------------------------
MaxInsts == 4        \* ServerProcess objects constructed in a run

\* the keys of getMcpServersConfig(), and the names a host may pass
CfgNames == {"auditor", "files"}
AllNames == CfgNames \cup {"ghost"}

\* getOrCreateServer that constructs a ServerProcess on every call
getOrCreateServer_alwaysNew(m, is, name) ==
  IF name \notin CfgNames
  THEN [inst |-> 0, servers |-> m, insts |-> is, err |-> "Unknown MCP server"]
  ELSE LET i == Len(is) + 1 IN
       [inst |-> i, servers |-> [m EXCEPT ![name] = i],
        insts |-> Append(is, [name |-> name, child |-> FALSE]), err |-> "none"]

\* getOrCreateServer(name) on the map m and the objects is: the instance it
\* returns (0 when it throws), the map and the objects afterwards
getOrCreateServer(m, is, name) ==
  IF name \notin CfgNames
  THEN [inst |-> 0, servers |-> m, insts |-> is, err |-> "Unknown MCP server"]
  ELSE IF m[name] # 0
       THEN [inst |-> m[name], servers |-> m, insts |-> is, err |-> "none"]
       ELSE LET i == Len(is) + 1 IN
            [inst |-> i, servers |-> [m EXCEPT ![name] = i],
             insts |-> Append(is, [name |-> name, child |-> FALSE]), err |-> "none"]

InitRegistry ==
  /\ servers = [n \in CfgNames |-> 0]
  /\ insts = <<>>
  /\ last = [name |-> "", op |-> "none", inst |-> 0, err |-> "none"]

\* ensureReady(name) / listTools(name) / callTool(name, ...) enters: the
\* lookup, then s.ensureReady(), whose first synchronous part calls start()
PublicCall(name, op) ==
  /\ LET g == getOrCreateServer(servers, insts, name) IN
       /\ Len(g.insts) <= MaxInsts
       /\ servers' = g.servers
       /\ insts' = IF g.inst = 0 THEN g.insts
                   ELSE [g.insts EXCEPT ![g.inst].child = TRUE]
       /\ last' = [name |-> name, op |-> op, inst |-> g.inst, err |-> g.err]
  /\ UNCHANGED outsideRegistry

\* closeAll(): stop() on every supervisor of the map, then servers.clear()
RegistryCloseAll ==
  /\ servers' = [n \in CfgNames |-> 0]
  /\ insts' = [i \in DOMAIN insts |->
                IF \E n \in CfgNames : servers[n] = i
                THEN [insts[i] EXCEPT !.child = FALSE] ELSE insts[i]]
  /\ last' = [name |-> "", op |-> "closeAll", inst |-> 0, err |-> "none"]
  /\ UNCHANGED outsideRegistry

\* the child of supervisor i exits, or its idle check stops it
RegistryChildGone(i) ==
  /\ i \in DOMAIN insts
  /\ insts[i].child
  /\ insts' = [insts EXCEPT ![i].child = FALSE]
  /\ UNCHANGED <<servers, last>>
  /\ UNCHANGED outsideRegistry

NextRegistry ==
  \/ \E name \in AllNames, op \in Ops : PublicCall(name, op)
  \/ RegistryCloseAll
  \/ \E i \in 1..MaxInsts : RegistryChildGone(i)

InitRegistryAlone ==
  Init /\ NoServer /\ NoChat /\ NoManifest /\ InitRegistry
       /\ conf = [idleTtlOk |-> TRUE, reqCap |-> MaxId, retriesFree |-> FALSE]

SpecRegistry == InitRegistryAlone /\ [][NextRegistry]_allvars

MaxTools == 2        \* tools a manifest lists

\* Values of a manifest field: "absent" (the key is missing), "empty" (the
\* string ''), "num" (a value that is no string), or a non-empty string.
NameVals == {"absent", "empty", "num", "mcp-auditor"}
VersionVals == {"absent", "empty", "1.0.0"}
TransportVals == {"absent", "http", "bad"}
ToolNameVals == {"absent", "empty", "audit_site", "dry_run"}
ToolDecls == [name : ToolNameVals, input_schema : BOOLEAN]

\* tools: missing, not an array, or an array of MaxTools declarations or fewer
ToolsVals ==
  {[kind |-> k, items |-> <<>>] : k \in {"absent", "num"}}
    \cup {[kind |-> "array", items |-> a] : a \in UNION {[1..n -> ToolDecls] : n \in 0..MaxTools}}

\* the documents JSON.parse may hand to loadManifest
Manifests ==
  [name : NameVals, version : VersionVals, transport : TransportVals, tools : ToolsVals]

\* { type: 'string', minLength: 1 } on a required property
NonEmptyString(v) == v \notin {"absent", "empty", "num"}

\* ajv's validate(manifest) against manifestSchema
validate(manifest) ==
  /\ NonEmptyString(manifest.name)
  /\ NonEmptyString(manifest.version)
  /\ manifest.transport \in {"stdio", "http"}
  /\ manifest.tools.kind = "array"
  /\ Len(manifest.tools.items) >= 1
  /\ \A i \in DOMAIN manifest.tools.items : NonEmptyString(manifest.tools.items[i].name)

\* the sanity loop over manifest.tools: "dup" when a name repeats, else the
\* tools with an input schema put where none was declared
RECURSIVE sanity(_, _, _)
sanity(tools, i, seen) ==
  IF i > Len(tools) THEN [ok |-> TRUE, tools |-> tools]
  ELSE IF tools[i].name \in seen THEN [ok |-> FALSE, tools |-> tools]
       ELSE sanity([tools EXCEPT ![i].input_schema = TRUE], i + 1, seen \cup {tools[i].name})

\* loadManifest without the loop that looks for duplicate names
loadManifest_noSanity(found) ==
  LET manifest == [found EXCEPT !.transport = IF @ = "absent" THEN "stdio" ELSE @] IN
  IF ~validate(manifest)
  THEN [ok |-> FALSE, manifest |-> manifest, err |-> "Invalid manifest structure"]
  ELSE [ok |-> TRUE, manifest |-> manifest, err |-> "none"]

\* loadManifest once a candidate file has been read and parsed
loadManifest(found) ==
  LET manifest == [found EXCEPT !.transport = IF @ = "absent" THEN "stdio" ELSE @] IN
  IF ~validate(manifest)
  THEN [ok |-> FALSE, manifest |-> manifest, err |-> "Invalid manifest structure"]
  ELSE LET t == sanity(manifest.tools.items, 1, {}) IN
       IF ~t.ok
       THEN [ok |-> FALSE, manifest |-> manifest, err |-> "Duplicate tool name in manifest"]
       ELSE [ok |-> TRUE, manifest |-> [manifest EXCEPT !.tools.items = t.tools], err |-> "none"]

\* createServer's registry: for (const t of manifest.tools) tools[t.name] = ...
\* as the sequence of the names registered, in order
toolTable(manifest) ==
  [i \in DOMAIN manifest.tools.items |-> manifest.tools.items[i].name]

InitManifest ==
  /\ doc \in Manifests
  /\ loaded = [st |-> "no", err |-> "none", src |-> doc, table |-> <<>>]

\* createServer: const manifest = await loadManifest(...)
LoadManifest ==
  /\ loaded.st = "no"
  /\ LET l == loadManifest(doc) IN
       /\ doc' = l.manifest
       /\ loaded' = [loaded EXCEPT !.st = IF l.ok THEN "ok" ELSE "failed", !.err = l.err]
  /\ UNCHANGED outsideManifest

\* createServer builds the tool table and returns the server
BuildTools ==
  /\ loaded.st = "ok"
  /\ loaded' = [loaded EXCEPT !.st = "serving", !.table = toolTable(doc)]
  /\ UNCHANGED doc
  /\ UNCHANGED outsideManifest

\* main's catch: process.exit(1)
StartFails ==
  /\ loaded.st = "failed"
  /\ loaded' = [loaded EXCEPT !.st = "exit1"]
  /\ UNCHANGED doc
  /\ UNCHANGED outsideManifest

NextManifest == LoadManifest \/ BuildTools \/ StartFails

InitManifestAlone ==
  Init /\ NoServer /\ NoChat /\ NoRegistry /\ InitManifest
       /\ conf = [idleTtlOk |-> TRUE, reqCap |-> MaxId, retriesFree |-> FALSE]

SpecManifest == InitManifestAlone /\ [][NextManifest]_allvars

\* the manifest read from the file lacks name, version or tools, or two of
\* its tools share a name
LacksRequired(d) == "absent" \in {d.name, d.version, d.tools.kind}

SharesAName(d) ==
  \E i, j \in DOMAIN d.tools.items : i # j /\ d.tools.items[i].name = d.tools.items[j].name

\* C24: loading a manifest in which two tools share a name, or which lacks
\* name, version or tools, fails with an error and yields no server; the
\* tool table of a server that runs has pairwise distinct names.
C24_BadManifestYieldsNoServer ==
  /\ (loaded.st # "no" /\ (LacksRequired(loaded.src) \/ SharesAName(loaded.src)))
       => (loaded.st \in {"failed", "exit1"} /\ loaded.err # "none" /\ loaded.table = <<>>)
  /\ loaded.st = "serving" =>
       \A i, j \in DOMAIN loaded.table : i # j => loaded.table[i] # loaded.table[j]

\* an otherwise valid manifest with two tools of one name was refused
C24_Witness ==
  /\ loaded.st = "exit1"
  /\ NonEmptyString(loaded.src.name) /\ NonEmptyString(loaded.src.version)
  /\ SharesAName(loaded.src)
  /\ \A i \in DOMAIN loaded.src.tools.items : NonEmptyString(loaded.src.tools.items[i].name)

\* ---------------------------------------------------------------------------
\* The chat client's session hook: useChatSessions.js. The file holds two
\* definitions of the hook, one after the other; `revision` says which of them
\* a run uses (1: the first, 2: the second).
\* ---------------------------------------------------------------------------
MaxSessions == 3
MaxUuid == 6
MaxNow == 1
MaxChatMsgs == 1

\* an id no session and no message has
MissingId == 0

DefaultTitle == "Nueva conversacion"

\* const GREETING = () => ({...}); u is what uuid() returns, t is Date.now()
GREETING(u, t) == [id |-> u, content |-> "greeting", isBot |-> TRUE, timestamp |-> t]

\* initialSession(): uuid() gives u for the session and u + 1 for the greeting
initialSession(u, t) ==
  [id |-> u, title |-> DefaultTitle, createdAt |-> t, updatedAt |-> t,
   active |-> TRUE, messages |-> <<GREETING(u + 1, t)>>]

\* list.some(s => s.active)
SomeActive(list) == \E i \in DOMAIN list : list[i].active

\* actives.reduce((a, b) => (a.updatedAt || 0) > (b.updatedAt || 0) ? a : b)
RECURSIVE newestOf(_, _)
newestOf(a, rest) ==
  IF rest = <<>> THEN a
  ELSE newestOf(IF a.updatedAt > Head(rest).updatedAt THEN a ELSE Head(rest), Tail(rest))

\* ensureOneActive(list), of the second definition
ensureOneActive(list) ==
  IF list = <<>> THEN list
  ELSE LET l1 == IF SomeActive(list) THEN list
                 ELSE [list EXCEPT ![Len(list)].active = TRUE]
           actives == SelectSeq(l1, LAMBDA x : x.active)
       IN IF Len(actives) > 1
          THEN LET newest == newestOf(Head(actives), Tail(actives)) IN
               [i \in DOMAIN l1 |-> [l1[i] EXCEPT !.active = (l1[i].id = newest.id)]]
          ELSE l1

\* loadSessions() on what saveSessions stored
loadSessions(rev, arr, u, t) ==
  IF arr = <<>> THEN <<initialSession(u, t)>>
  ELSE IF rev = 1
       THEN IF SomeActive(arr) THEN arr ELSE [arr EXCEPT ![1].active = TRUE]
       ELSE ensureOneActive(arr)

\* prev.map(s => ({ ...s, active: s.id === id }))
activateOnly(prev, id) ==
  [i \in DOMAIN prev |-> [prev[i] EXCEPT !.active = (prev[i].id = id)]]

\* the updater of setActiveById(id)
setActiveById(rev, prev, id) ==
  IF rev = 1 THEN activateOnly(prev, id)
  ELSE IF \E i \in DOMAIN prev : prev[i].id = id THEN activateOnly(prev, id) ELSE prev

\* the updater of newSession()
newSession(prev, u, t) ==
  Append([i \in DOMAIN prev |-> [prev[i] EXCEPT !.active = FALSE]], initialSession(u, t))

\* the updater of deleteSession(id)
deleteSession(rev, prev, id, u, t) ==
  LET filtered == SelectSeq(prev, LAMBDA x : x.id # id) IN
  IF filtered = <<>> THEN <<initialSession(u, t)>>
  ELSE IF rev = 1
       THEN IF SomeActive(filtered) THEN filtered
            ELSE [filtered EXCEPT ![Len(filtered)].active = TRUE]
       ELSE ensureOneActive(filtered)

\* the updater of renameSession(id, title); title "" stands for a falsy one
renameSession(prev, id, title, t) ==
  [i \in DOMAIN prev |->
     IF prev[i].id = id
     THEN [prev[i] EXCEPT !.title = IF title = "" THEN "Untitled" ELSE title,
                          !.updatedAt = t]
     ELSE prev[i]]

\* the updater of appendMessage(msg), msg without an id
appendMessage(prev, msg, u, t) ==
  [i \in DOMAIN prev |->
     IF ~prev[i].active THEN prev[i]
     ELSE LET messages == Append(prev[i].messages,
                                 [id |-> u, content |-> msg.content,
                                  isBot |-> msg.isBot, timestamp |-> t])
              userMsgs == SelectSeq(messages, LAMBDA m : ~m.isBot)
              title == IF Len(userMsgs) = 1 /\ prev[i].title \in {DefaultTitle, ""}
                       THEN userMsgs[1].content ELSE prev[i].title
          IN [prev[i] EXCEPT !.messages = messages, !.title = title, !.updatedAt = t]]

\* the updater of updateMessage(id, patch), patch = { content }
updateMessage(prev, id, patch, t) ==
  [i \in DOMAIN prev |->
     IF ~prev[i].active THEN prev[i]
     ELSE [prev[i] EXCEPT
             !.messages = [j \in DOMAIN @ |->
                             IF @[j].id = id THEN [@[j] EXCEPT !.content = patch] ELSE @[j]],
             !.updatedAt = t]]

\* the updater of clearActive()
clearActive(prev, u, t) ==
  [i \in DOMAIN prev |->
     IF prev[i].active
     THEN [prev[i] EXCEPT !.messages = <<GREETING(u, t)>>, !.updatedAt = t]
     ELSE prev[i]]

\* the ids of the sessions and of the messages of the active one, and an id
\* that nothing has
KnownIds ==
  {sessions[i].id : i \in DOMAIN sessions} \cup {MissingId}
MessageIds ==
  UNION {{sessions[i].messages[j].id : j \in DOMAIN sessions[i].messages} :
           i \in {k \in DOMAIN sessions : sessions[k].active}} \cup {MissingId}

\* useState(() => loadSessions()) with nothing stored
InitHook ==
  /\ revision \in {1, 2}
  /\ clock = 0
  /\ sessions = loadSessions(revision, <<>>, 1, 0)
  /\ nextUuid = 3

NewSession ==
  /\ Len(sessions) < MaxSessions /\ nextUuid + 1 <= MaxUuid
  /\ sessions' = newSession(sessions, nextUuid, clock)
  /\ nextUuid' = nextUuid + 2
  /\ UNCHANGED <<revision, clock>>
  /\ UNCHANGED outsideHook

SetActiveById(id) ==
  /\ sessions' = setActiveById(revision, sessions, id)
  /\ UNCHANGED <<revision, nextUuid, clock>>
  /\ UNCHANGED outsideHook

DeleteSession(id) ==
  /\ nextUuid + 1 <= MaxUuid
  /\ sessions' = deleteSession(revision, sessions, id, nextUuid, clock)
  /\ nextUuid' = IF \A i \in DOMAIN sessions : sessions[i].id = id
                 THEN nextUuid + 2 ELSE nextUuid
  /\ UNCHANGED <<revision, clock>>
  /\ UNCHANGED outsideHook

RenameSession(id, title) ==
  /\ sessions' = renameSession(sessions, id, title, clock)
  /\ UNCHANGED <<revision, nextUuid, clock>>
  /\ UNCHANGED outsideHook

AppendMessage(msg) ==
  /\ nextUuid <= MaxUuid
  /\ \A i \in DOMAIN sessions : Len(sessions[i].messages) <= MaxChatMsgs
  /\ sessions' = appendMessage(sessions, msg, nextUuid, clock)
  /\ nextUuid' = IF SomeActive(sessions) THEN nextUuid + 1 ELSE nextUuid
  /\ UNCHANGED <<revision, clock>>
  /\ UNCHANGED outsideHook

UpdateMessage(id, patch) ==
  /\ sessions' = updateMessage(sessions, id, patch, clock)
  /\ UNCHANGED <<revision, nextUuid, clock>>
  /\ UNCHANGED outsideHook

ClearActive ==
  /\ nextUuid <= MaxUuid
  /\ sessions' = clearActive(sessions, nextUuid, clock)
  /\ nextUuid' = IF SomeActive(sessions) THEN nextUuid + 1 ELSE nextUuid
  /\ UNCHANGED <<revision, clock>>
  /\ UNCHANGED outsideHook

\* the page is loaded again: useState(() => loadSessions()) on what the
\* effect stored
Reload ==
  /\ sessions' = loadSessions(revision, sessions, nextUuid, clock)
  /\ UNCHANGED <<revision, nextUuid, clock>>
  /\ UNCHANGED outsideHook

\* Date.now() moves on
ClockTicks ==
  /\ clock < MaxNow
  /\ clock' = clock + 1
  /\ UNCHANGED <<revision, sessions, nextUuid>>
  /\ UNCHANGED outsideHook

NextHook ==
  \/ NewSession
  \/ \E id \in KnownIds : SetActiveById(id)
  \/ \E id \in KnownIds : DeleteSession(id)
  \/ \E id \in KnownIds, title \in {"", "t"} : RenameSession(id, title)
  \/ \E isBot \in BOOLEAN : AppendMessage([content |-> "hi", isBot |-> isBot])
  \/ \E id \in MessageIds : UpdateMessage(id, "edited")
  \/ ClearActive
  \/ Reload
  \/ ClockTicks

\* the hook alone: no supervisor, no server process
InitHookAlone ==
  /\ Init /\ NoServer /\ NoRegistry /\ NoManifest
  /\ conf = [idleTtlOk |-> TRUE, reqCap |-> MaxId, retriesFree |-> FALSE]
  /\ InitHook

SpecHook == InitHookAlone /\ [][NextHook]_allvars

\* C39: after any sequence of newSession, setActiveById (with an existing or
\* a non-existing id), deleteSession, renameSession, appendMessage,
\* updateMessage and clearActive the session list is non-empty and exactly one
\* session is active.
C39_ExactlyOneActive ==
  revision # 0 =>
    /\ sessions # <<>>
    /\ Cardinality({i \in DOMAIN sessions : sessions[i].active}) = 1

\* the same, for a run of the second definition of the hook
SecondRevisionKeepsOneActive ==
  revision = 2 =>
    /\ sessions # <<>>
    /\ Cardinality({i \in DOMAIN sessions : sessions[i].active}) = 1

====
